---- MODULE Spec2Model ----
(***************************************************************************)
(* A model of the CTTK "i31" big-integer engine (src/src/int31.c).         *)
(*                                                                         *)
(* A big integer is an array of 32-bit words: a header word (encoded size  *)
(* plus the NaN flag in the top bit) followed by value words carrying 31   *)
(* bits each.  The model keeps that layout but is parametric in the number *)
(* of value bits per word: LimbBits stands for the source's 31 and         *)
(* WordBits = LimbBits + 1 for its 32, so that every constant of the       *)
(* source is written in terms of LimbBits (0x7FFFFFFF is LimbMask, 30 is   *)
(* LimbBits - 1, h >> 5 is h \div WordBits, h & 31 is h % WordBits, ...).  *)
(* With a small LimbBits TLC enumerates every value of integers of one    *)
(* limb and of several.  Unsigned word arithmetic wraps modulo 2^WordBits, *)
(* shift counts (uint32_t) are words too.  64-bit accumulators and size_t  *)
(* indices are unbounded integers; a size_t difference that would wrap is  *)
(* modelled as the out-of-bounds access it leads to.                       *)
(*                                                                         *)
(* An array is the record [h, nan, v]: h is x[0] & 0x7FFFFFFF, nan is      *)
(* x[0] >> 31 and v[i] is x[i].  Memory is a function from array names to  *)
(* arrays; the operations take memory and the names of their operands, so  *)
(* that two operands may be the same array, as two equal pointers are.     *)
(***************************************************************************)
EXTENDS Integers, Sequences, FiniteSets, TLC

\* Value bits per word (31 in the source) and the largest declared size.
LimbBits == 3
MaxSize == 5
\* Largest declared size in the register-file specification.
MaxSeqSize == 2
\* Number of calls of a sequence.
MaxSteps == 2
\* Bits per byte of an encoded integer (8 in the source).
ByteBits == 2

WordBits == LimbBits + 1
WordMod == 2 ^ WordBits
LimbMod == 2 ^ LimbBits
LimbMask == LimbMod - 1

NULL == "NULL"

(***************************************************************************)
(* Word operators of C on uint32_t.                                        *)
(***************************************************************************)
RECURSIVE BitAnd(_, _)
BitAnd(x, y) ==
  IF x = 0 \/ y = 0 THEN 0
  ELSE (x % 2) * (y % 2) + 2 * BitAnd(x \div 2, y \div 2)

RECURSIVE BitOr(_, _)
BitOr(x, y) ==
  IF x = 0 THEN y
  ELSE IF y = 0 THEN x
  ELSE (IF (x % 2) + (y % 2) > 0 THEN 1 ELSE 0) + 2 * BitOr(x \div 2, y \div 2)

RECURSIVE BitXor(_, _)
BitXor(x, y) ==
  IF x = 0 THEN y
  ELSE IF y = 0 THEN x
  ELSE ((x + y) % 2) + 2 * BitXor(x \div 2, y \div 2)

\* x << n, x >> n, -x and ~x on a word.
Shl(x, n) == (x * (2 ^ n)) % WordMod
Shr(x, n) == x \div (2 ^ n)
NegW(x) == (WordMod - x) % WordMod
NotW(x) == WordMod - 1 - x

(***************************************************************************)
(* Word primitives of cttk.h; a cttk_bool is its field v, 0 or 1.          *)
(***************************************************************************)
cttk_not(c) == BitXor(c, 1)
cttk_and(c1, c2) == BitAnd(c1, c2)
cttk_or(c1, c2) == BitOr(c1, c2)
cttk_u32_mux(ctl, x, y) == BitXor(y, BitAnd(NegW(ctl), BitXor(x, y)))
\* On the two's complement words of the int32_t values.
cttk_s32_mux(ctl, x, y) == cttk_u32_mux(ctl, x, y)
cttk_u32_neq0(x) == LET q == BitOr(x, NegW(x)) IN Shr(BitOr(q, NegW(q)), WordBits - 1)
cttk_u32_eq0(x) == cttk_not(cttk_u32_neq0(x))
cttk_u32_eq(x, y) == cttk_u32_eq0(BitXor(x, y))

(***************************************************************************)
(* Layout.                                                                 *)
(***************************************************************************)
\* h for a declared size, as cttk_i31_init encodes it.
Header(size) == size + (size \div LimbBits)
\* Number of value words, (h + 31) >> 5, and bit length, h - (h >> 5).
WordLen(h) == (h + LimbBits) \div WordBits
BitLen(h) == h - (h \div WordBits)

\* top_index: h = (h & 31) - 1; return h + (31 & (h >> 5)).  When h & 31 is 0
\* the subtraction wraps to all-ones and the second term adds 31.
top_index(h) ==
  LET t == h % WordBits
  IN IF t = 0 THEN LimbBits - 1 ELSE t - 1

signext(v, n) ==
  LET hi == Shl(NegW(Shr(v, n - 1) % 2), n - 1)
      lo == BitAnd(v, Shr(WordMod - 1, WordBits - n))
  IN BitOr(hi, lo)

\* The function f with its values computed: TLC otherwise keeps the
\* expression and evaluates it again at each application.
Stored(f) == f @@ <<>>

\* F(e) with e computed first: TLC otherwise computes an argument where the
\* operator first uses it, and a long sequence of calls nests deeper than
\* its stack.
Then(e, F(_)) == CHOOSE r \in {F(v) : v \in {e}} : TRUE

\* The array cttk_i31_init leaves: a NaN of the given size, value words zero.
InitArr(size) ==
  LET h == Header(size)
  IN [h |-> h, nan |-> 1, v |-> Stored([i \in 1..WordLen(h) |-> 0])]

cttk_i31_init(m, x, size) == [m EXCEPT ![x] = InitArr(size)]

\* The range of a declared size.
MinValue(size) == -(2 ^ (size - 1))
MaxValue(size) == 2 ^ (size - 1) - 1
InRange(e, size) == MinValue(size) <= e /\ e <= MaxValue(size)

\* The non-NaN array of the given size holding val: two's complement over
\* all the value words, 31 bits per word, little-endian, so that the sign
\* extends over the top word.
FromInt(size, val) ==
  LET h == Header(size)
      len == WordLen(h)
      u == val % (2 ^ (len * LimbBits))
  IN [h |-> h, nan |-> 0,
      v |-> Stored([i \in 1..len |-> (u \div (2 ^ ((i - 1) * LimbBits))) % LimbMod])]

\* The integer the value words of an array hold (NaN flag ignored).
RECURSIVE words_sum(_, _)
words_sum(v, u) ==
  IF u = 0 THEN 0 ELSE v[u] * (2 ^ ((u - 1) * LimbBits)) + words_sum(v, u - 1)

ToInt(x) ==
  LET len == WordLen(x.h)
      s == words_sum(x.v, len)
  IN IF s >= 2 ^ (len * LimbBits - 1) THEN s - 2 ^ (len * LimbBits) ELSE s

SizeOf(x) == BitLen(x.h)

cttk_i31_isnan(m, x) == m[x].nan

(***************************************************************************)
(* Scalar setters (the ones the division routine uses).  v is the word     *)
(* holding the C value: an int32_t is given by its two's complement.       *)
(***************************************************************************)
cttk_i31_set_u32(m, x, v) ==
  LET h == m[x].h
      len == WordLen(h)
      size == BitLen(h)
      v1 == Stored([i \in 1..len |->
               IF i = 1 THEN BitAnd(v, LimbMask)
               ELSE IF i = 2 /\ size >= WordBits THEN Shr(v, LimbBits)
               ELSE IF i >= 2 THEN 0 ELSE m[x].v[i]])
      nan == IF size <= WordBits THEN cttk_u32_neq0(Shr(v, size - 1)) ELSE 0
  IN [m EXCEPT ![x] = [h |-> h, nan |-> nan, v |-> v1]]

cttk_i31_set_u32_trunc(m, x, v) ==
  LET h == m[x].h
      len == WordLen(h)
      size == BitLen(h)
      v1 == Stored([i \in 1..len |->
               IF size > WordBits THEN
                 (IF i = 1 THEN BitAnd(v, LimbMask)
                  ELSE IF i = 2 THEN Shr(v, LimbBits) ELSE 0)
               ELSE IF size = WordBits THEN
                 (IF i = 1 THEN BitAnd(v, LimbMask)
                  ELSE IF i = 2 THEN Shr(NegW(Shr(v, LimbBits)), 1) ELSE 0)
               ELSE
                 (IF i = 1 THEN BitAnd(signext(v, size), LimbMask) ELSE 0)])
  IN [m EXCEPT ![x] = [h |-> h, nan |-> 0, v |-> v1]]

cttk_i31_set_s32(m, x, v) ==
  LET h == m[x].h
      len == WordLen(h)
      size == BitLen(h)
      w == Shr(NegW(Shr(v, LimbBits)), 1)
      mk == Shl(WordMod - 1, size - 1)
      wm == BitAnd(v, mk)
  IN IF size >= WordBits
     THEN [m EXCEPT ![x] = [h |-> h, nan |-> 0,
             v |-> Stored([i \in 1..len |-> IF i = 1 THEN BitAnd(v, LimbMask) ELSE w])]]
     ELSE [m EXCEPT ![x] = [h |-> h,
             nan |-> BitAnd(cttk_u32_neq0(wm), cttk_u32_neq0(BitXor(wm, mk))),
             v |-> [m[x].v EXCEPT ![1] = BitAnd(v, LimbMask)]]]

(***************************************************************************)
(* Comparisons.  The value tests ignore the NaN flag.                      *)
(***************************************************************************)
RECURSIVE or_words(_, _)
or_words(v, u) == IF u = 0 THEN 0 ELSE BitOr(or_words(v, u - 1), v[u])

val_eq0(m, x) == cttk_u32_eq0(or_words(m[x].v, WordLen(m[x].h)))

val_lt0(m, x) == BitAnd(Shr(m[x].v[WordLen(m[x].h)], LimbBits - 1), 1)

cttk_i31_eq0(m, x) == cttk_and(val_eq0(m, x), cttk_not(cttk_i31_isnan(m, x)))
cttk_i31_neq0(m, x) == cttk_not(cttk_or(val_eq0(m, x), cttk_i31_isnan(m, x)))
cttk_i31_gt0(m, x) ==
  cttk_not(cttk_or(cttk_or(val_eq0(m, x), val_lt0(m, x)), cttk_i31_isnan(m, x)))
cttk_i31_lt0(m, x) == cttk_and(val_lt0(m, x), cttk_not(cttk_i31_isnan(m, x)))
cttk_i31_geq0(m, x) == cttk_not(cttk_or(val_lt0(m, x), cttk_i31_isnan(m, x)))
cttk_i31_leq0(m, x) ==
  cttk_and(cttk_or(val_eq0(m, x), val_lt0(m, x)), cttk_not(cttk_i31_isnan(m, x)))

\* The test of the first operand alone.
tst_nan1(m, x, y) == m[x].nan

tst_nan2(m, x, y) == BitOr(m[x].nan, m[y].nan)

\* (uint32_t)((x[0] ^ y[0]) << 1) != 0: the headers differ below the NaN bit.
SizeDiffers(m, x, y) == m[x].h # m[y].h

RECURSIVE val_eq_loop(_, _, _, _)
val_eq_loop(m, x, y, u) ==
  IF u = 0 THEN 0
  ELSE BitOr(val_eq_loop(m, x, y, u - 1), BitXor(m[x].v[u], m[y].v[u]))

val_eq(m, x, y) == cttk_u32_eq0(val_eq_loop(m, x, y, WordLen(m[x].h)))

\* The borrow loop shared by val_lt and val_cmp: after u words, cc is the
\* borrow and t the OR of the differences.
RECURSIVE val_sub_loop(_, _, _, _)
val_sub_loop(m, x, y, u) ==
  IF u = 0 THEN [cc |-> 0, t |-> 0]
  ELSE LET p == val_sub_loop(m, x, y, u - 1)
           wz == (m[x].v[u] - m[y].v[u] - p.cc) % WordMod
       IN [cc |-> Shr(wz, WordBits - 1), t |-> BitOr(p.t, wz)]

\* The borrow alone, that is the comparison of the words as unsigned.
val_lt_unsigned(m, x, y) == val_sub_loop(m, x, y, WordLen(m[x].h)).cc

val_lt(m, x, y) ==
  LET len == WordLen(m[x].h)
      cc == val_sub_loop(m, x, y, len).cc
  IN BitXor(cc, Shr(BitXor(m[x].v[len], m[y].v[len]), LimbBits - 1))

\* Returns -1, 0 or 1 as a word.
val_cmp(m, x, y) ==
  LET len == WordLen(m[x].h)
      p == val_sub_loop(m, x, y, len)
      cc == BitXor(p.cc, Shr(BitXor(m[x].v[len], m[y].v[len]), LimbBits - 1))
  IN BitOr(cttk_u32_neq0(p.t), NegW(cc))

cttk_i31_eq(m, x, y) ==
  IF SizeDiffers(m, x, y) THEN 0
  ELSE cttk_and(val_eq(m, x, y), cttk_not(tst_nan2(m, x, y)))
cttk_i31_neq(m, x, y) ==
  IF SizeDiffers(m, x, y) THEN 0
  ELSE cttk_not(cttk_or(val_eq(m, x, y), tst_nan2(m, x, y)))
cttk_i31_lt(m, x, y) ==
  IF SizeDiffers(m, x, y) THEN 0
  ELSE cttk_and(val_lt(m, x, y), cttk_not(tst_nan2(m, x, y)))
cttk_i31_leq(m, x, y) ==
  IF SizeDiffers(m, x, y) THEN 0
  ELSE cttk_not(cttk_or(val_lt(m, y, x), tst_nan2(m, x, y)))
cttk_i31_gt(m, x, y) ==
  IF SizeDiffers(m, x, y) THEN 0
  ELSE cttk_and(val_lt(m, y, x), cttk_not(tst_nan2(m, x, y)))
cttk_i31_geq(m, x, y) ==
  IF SizeDiffers(m, x, y) THEN 0
  ELSE cttk_not(cttk_or(val_lt(m, x, y), tst_nan2(m, x, y)))

\* The int returned: the word w read as int32_t.
AsSigned(w) == IF w >= WordMod \div 2 THEN w - WordMod ELSE w

cttk_i31_sign(m, x) ==
  LET w == BitOr(BitXor(val_eq0(m, x), 1), NegW(val_lt0(m, x)))
  IN AsSigned(BitAnd(w, (m[x].nan - 1) % WordMod))

cttk_i31_cmp(m, x, y) ==
  IF SizeDiffers(m, x, y) THEN 0
  ELSE AsSigned(BitAnd(val_cmp(m, x, y), (BitOr(m[x].nan, m[y].nan) - 1) % WordMod))

(***************************************************************************)
(* Copy, swap, mux.                                                        *)
(***************************************************************************)
SetNaN(m, d) == [m EXCEPT ![d].nan = 1]

\* A copy without the test of the sizes: the header goes along.
cttk_i31_copy_unchecked(m, d, s) == [m EXCEPT ![d] = m[s]]

cttk_i31_copy(m, d, s) ==
  IF d = s THEN m
  ELSE IF SizeDiffers(m, d, s) THEN SetNaN(m, d)
  ELSE [m EXCEPT ![d] = m[s]]

\* The loop started at u = 1: the header of d, its NaN flag in it, stays.
cttk_i31_mux_words(m, ctl, d, a, b) ==
  LET h == m[d].h
  IN IF h # m[a].h \/ h # m[b].h THEN SetNaN(m, d)
     ELSE [m EXCEPT ![d].v =
             Stored([i \in 1..WordLen(h) |-> cttk_u32_mux(ctl, m[a].v[i], m[b].v[i])])]

\* d[u] = cttk_u32_mux(ctl, a[u], b[u]) for the header and every value word;
\* the three headers are equal below the NaN bit.
cttk_i31_mux(m, ctl, d, a, b) ==
  LET h == m[d].h
  IN IF h # m[a].h \/ h # m[b].h THEN SetNaN(m, d)
     ELSE [m EXCEPT ![d] =
             [h |-> h,
              nan |-> cttk_u32_mux(ctl, m[a].nan, m[b].nan),
              v |-> Stored([i \in 1..WordLen(h) |-> cttk_u32_mux(ctl, m[a].v[i], m[b].v[i])])]]

cttk_i31_cond_copy(m, ctl, d, s) == cttk_i31_mux(m, ctl, d, s, d)

cttk_i31_swap(m, a, b) ==
  IF a = b THEN m
  ELSE IF SizeDiffers(m, a, b) THEN SetNaN(SetNaN(m, a), b)
  ELSE [m EXCEPT ![a] = m[b], ![b] = m[a]]

cttk_i31_cond_swap(m, ctl, a, b) ==
  IF a = b THEN m
  ELSE IF SizeDiffers(m, a, b) THEN SetNaN(SetNaN(m, a), b)
  ELSE LET wt(wa, wb) == BitAnd(BitXor(wa, wb), NegW(ctl))
           mix(p, q) == [h |-> m[p].h,
                         nan |-> BitXor(m[p].nan, BitAnd(BitXor(m[p].nan, m[q].nan), ctl)),
                         v |-> Stored([i \in 1..WordLen(m[p].h) |->
                                  BitXor(m[p].v[i], wt(m[p].v[i], m[q].v[i]))])]
       IN [m EXCEPT ![a] = mix(a, b), ![b] = mix(b, a)]


(***************************************************************************)
(* Addition, subtraction, negation.  The loops run over memory, word by    *)
(* word, because the destination may be one of the sources.                *)
(***************************************************************************)
\* u value words done, carry cc: d[u + 1] = (a[u + 1] + b[u + 1] + cc) & mask.
RECURSIVE add_loop(_, _, _, _, _, _, _)
add_loop(m, d, a, b, u, len, cc) ==
  IF u >= len THEN [m |-> m, cc |-> cc]
  ELSE LET wd == m[a].v[u + 1] + m[b].v[u + 1] + cc
       IN add_loop([m EXCEPT ![d].v[u + 1] = BitAnd(wd, LimbMask)],
                   d, a, b, u + 1, len, Shr(wd, LimbBits))

\* The subtraction of each word alone: no borrow goes to the next word.
RECURSIVE sub_loop_no_borrow(_, _, _, _, _, _, _)
sub_loop_no_borrow(m, d, a, b, u, len, cc) ==
  IF u >= len THEN [m |-> m, cc |-> cc]
  ELSE LET wd == (m[a].v[u + 1] - m[b].v[u + 1]) % WordMod
       IN sub_loop_no_borrow([m EXCEPT ![d].v[u + 1] = BitAnd(wd, LimbMask)],
                             d, a, b, u + 1, len, Shr(wd, LimbBits))

RECURSIVE sub_loop(_, _, _, _, _, _, _)
sub_loop(m, d, a, b, u, len, cc) ==
  IF u >= len THEN [m |-> m, cc |-> cc]
  ELSE LET wd == (m[a].v[u + 1] - m[b].v[u + 1] - cc) % WordMod
       IN sub_loop([m EXCEPT ![d].v[u + 1] = BitAnd(wd, LimbMask)],
                   d, a, b, u + 1, len, Shr(wd, LimbBits))

RECURSIVE neg_loop(_, _, _, _, _, _)
neg_loop(m, d, x, u, len, cc) ==
  IF u >= len THEN m
  ELSE LET w == (NotW(m[x].v[u + 1]) + cc) % WordMod
       IN neg_loop([m EXCEPT ![d].v[u + 1] = BitAnd(w, LimbMask)],
                   d, x, u + 1, len, BitXor(Shr(w, LimbBits), 1))

\* The top word left as it is.
KeepTop(m, d) == m

\* h = d[0] & 0x7FFFFFFF; d[len] = signext(d[len], top_index(h) + 1) & 0x7FFFFFFF
SignExtendTop(m, d) ==
  LET h == m[d].h
      len == WordLen(h)
  IN [m EXCEPT ![d].v[len] = BitAnd(signext(m[d].v[len], top_index(h) + 1), LimbMask)]

\* The flag without the carry.
SignChange(h, tt, dtop, cc) ==
  Shr(Shl(Shr(BitXor(tt, dtop), top_index(h)), WordBits - 1), WordBits - 1)

\* (((tt ^ d[len]) >> top_index(h)) ^ cc) << 31, as the bit it leaves.
OverflowFlag(h, tt, dtop, cc) ==
  Shr(Shl(BitXor(Shr(BitXor(tt, dtop), top_index(h)), cc), WordBits - 1), WordBits - 1)

\* The end of add and sub: p is the memory and the carry the loop leaves, tt
\* the XOR of the top words of the sources; d[0] |= the overflow flag.
AddOverflow(p, d, tt) ==
  LET h == p.m[d].h
  IN [p.m EXCEPT ![d].nan =
        BitOr(@, OverflowFlag(h, tt, p.m[d].v[WordLen(h)], p.cc))]

cttk_i31_add(m, d, a, b) ==
  LET h == m[d].h
      len == WordLen(h)
  IN IF h # m[a].h \/ h # m[b].h THEN SetNaN(m, d)
     ELSE AddOverflow(add_loop([m EXCEPT ![d].nan = BitOr(m[a].nan, m[b].nan)],
                               d, a, b, 0, len, 0),
                      d, BitXor(m[a].v[len], m[b].v[len]))

cttk_i31_add_trunc(m, d, a, b) ==
  LET h == m[d].h
  IN IF h # m[a].h \/ h # m[b].h THEN SetNaN(m, d)
     ELSE SignExtendTop(add_loop([m EXCEPT ![d].nan = BitOr(m[a].nan, m[b].nan)],
                                 d, a, b, 0, WordLen(h), 0).m, d)

cttk_i31_sub(m, d, a, b) ==
  LET h == m[d].h
      len == WordLen(h)
  IN IF h # m[a].h \/ h # m[b].h THEN SetNaN(m, d)
     ELSE AddOverflow(sub_loop([m EXCEPT ![d].nan = BitOr(m[a].nan, m[b].nan)],
                               d, a, b, 0, len, 0),
                      d, BitXor(m[a].v[len], m[b].v[len]))

cttk_i31_sub_trunc(m, d, a, b) ==
  LET h == m[d].h
  IN IF h # m[a].h \/ h # m[b].h THEN SetNaN(m, d)
     ELSE SignExtendTop(sub_loop([m EXCEPT ![d].nan = BitOr(m[a].nan, m[b].nan)],
                                 d, a, b, 0, WordLen(h), 0).m, d)

\* The end of neg: tt is the top word of the source; the result overflows
\* when it and the source are both negative.
NegOverflow(m, d, tt) ==
  LET h == m[d].h
  IN [m EXCEPT ![d].nan =
        BitOr(@, BitAnd(Shr(BitAnd(m[d].v[WordLen(h)], tt), top_index(h)), 1))]

cttk_i31_neg(m, d, x) ==
  LET h == m[x].h
      len == WordLen(h)
  IN IF h # m[d].h THEN SetNaN(m, d)
     ELSE NegOverflow(neg_loop([m EXCEPT ![d].nan = m[x].nan], d, x, 0, len, 1),
                      d, m[x].v[len])

cttk_i31_neg_trunc(m, d, x) ==
  LET h == m[x].h
  IN IF h # m[d].h THEN SetNaN(m, d)
     ELSE SignExtendTop(neg_loop([m EXCEPT ![d].nan = m[x].nan],
                                 d, x, 0, WordLen(h), 1), d)

(***************************************************************************)
(* Multiplication.                                                         *)
(*                                                                         *)
(* env is the build and the allocator a call runs under: buf is            *)
(* CTTK_MAX_INT_BUF, nomalloc is CTTK_NO_MALLOC, ok[i] tells whether the   *)
(* i-th malloc of the call succeeds and junk is what a fresh block holds.  *)
(***************************************************************************)
CTTK_MAX_INT_BUF == 4096
SizeofWord == 4

\* zr = mulu32w(wa, wb): what the term v of column u adds to zd and to cc.
mul_term(m, a, b, u, v, len, ssa, ssb) ==
  LET wa == IF v < len THEN m[a].v[1 + v] ELSE ssa
      wb == IF (v + len) > u THEN m[b].v[1 + u - v] ELSE ssb
  IN [zd |-> (wa * wb) % LimbMod, cc |-> (wa * wb) \div LimbMod]

mul_sum(p, q) == [zd |-> p.zd + q.zd, cc |-> p.cc + q.cc]

\* The inner loop of genmul_separate: the sums added to zd and to cc for
\* column u by the terms v = lo .. hi (the sums are taken by halves).
RECURSIVE mul_column(_, _, _, _, _, _, _, _, _)
mul_column(m, a, b, u, lo, hi, len, ssa, ssb) ==
  IF lo = hi THEN mul_term(m, a, b, u, lo, len, ssa, ssb)
  ELSE mul_sum(mul_column(m, a, b, u, lo, (lo + hi) \div 2, len, ssa, ssb),
               mul_column(m, a, b, u, (lo + hi) \div 2 + 1, hi, len, ssa, ssb))

\* The end of a round of the outer loop: word u of d or the tests of only0
\* and only1, and the carry into the next column.  col is the sums of column
\* u, s.cc the carry into it.
mul_word(s, d, u, len, col) ==
  [m |-> IF u < len THEN [s.m EXCEPT ![d].v[1 + u] = (s.cc + col.zd) % LimbMod] ELSE s.m,
   only0 |-> IF u < len THEN s.only0
             ELSE cttk_and(s.only0, cttk_u32_eq0((s.cc + col.zd) % LimbMod)),
   only1 |-> IF u < len THEN s.only1
             ELSE cttk_and(s.only1,
                           cttk_u32_eq0(BitXor((s.cc + col.zd) % LimbMod, LimbMask))),
   cc |-> col.cc + ((s.cc + col.zd) \div LimbMod)]

\* The outer loop: the rounds for the columns lo .. hi, from the state s
\* (the rounds are run by halves, the first half before the second).
RECURSIVE mul_loop(_, _, _, _, _, _, _, _, _)
mul_loop(s, d, a, b, lo, hi, len, ssa, ssb) ==
  IF lo = hi
  THEN mul_word(s, d, lo, len, mul_column(s.m, a, b, lo, 0, lo, len, ssa, ssb))
  ELSE Then(mul_loop(s, d, a, b, lo, (lo + hi) \div 2, len, ssa, ssb), LAMBDA s1 :
            mul_loop(s1, d, a, b, (lo + hi) \div 2 + 1, hi, len, ssa, ssb))

\* The result when only the top word of d is tested.
mul_top_only(p, d, ssd) ==
  [m |-> p.m,
   r |-> cttk_u32_eq0(Shr(BitXor(p.m[d].v[WordLen(p.m[d].h)], ssd), top_index(p.m[d].h)))]

\* The end of genmul_separate: r = 1 iff the truncation kept the value.
mul_result(p, d, ssd) ==
  [m |-> p.m,
   r |-> cttk_and(cttk_u32_mux(BitAnd(ssd, 1), p.only1, p.only0),
                  cttk_u32_eq0(Shr(BitXor(p.m[d].v[WordLen(p.m[d].h)], ssd),
                                   top_index(p.m[d].h))))]

\* Returns [m, r].  d is distinct from a and b.
genmul_separate(m, d, a, b) ==
  LET len == WordLen(m[d].h)
      ssa == Shr(NegW(Shr(m[a].v[len], LimbBits - 1)), 1)
      ssb == Shr(NegW(Shr(m[b].v[len], LimbBits - 1)), 1)
      opz == cttk_or(cttk_i31_eq0(m, a), cttk_i31_eq0(m, b))
  IN mul_result(mul_loop([m |-> m, only0 |-> 1, only1 |-> 1, cc |-> 0],
                         d, a, b, 0, 2 * len - 1, len, ssa, ssb),
                d, BitAnd(BitXor(ssa, ssb), (opz - 1) % WordMod))

\* Memory with one more array, and memory without it.
WithTemp(m, t, x) == (t :> x) @@ m
WithoutTemp(m, t) == Stored([p \in (DOMAIN m) \ {t} |-> m[p]])

\* memcpy(d + 1, t + 1, len * sizeof *d), the temporary then gone.
mul_copy_back(p, d) ==
  [m |-> WithoutTemp([p.m EXCEPT ![d].v = p.m["t"].v], "t"), r |-> p.r]

\* The body shared by genmul_stack and the heap branch of genmul: t[0] = h,
\* the value words of t zeroed, the product into t, its value words into d.
genmul_temp(m, d, a, b) ==
  LET h == m[d].h
  IN mul_copy_back(
       genmul_separate(
         WithTemp(m, "t", [h |-> h, nan |-> 0, v |-> Stored([i \in 1..WordLen(h) |-> 0])]),
         "t", a, b),
       d)

\* The product written straight into d, which is a or b.
genmul_direct(m, d, a, b) == genmul_separate(m, d, a, b)

genmul_stack(m, d, a, b) == genmul_temp(m, d, a, b)

genmul(m, d, a, b, env) ==
  LET h == m[d].h
      blen == ((h + 2 * WordBits - 1) \div WordBits) * SizeofWord
      m1 == [m EXCEPT ![d].nan = BitOr(m[a].nan, m[b].nan)]
  IN IF h # m[a].h \/ h # m[b].h THEN [m |-> SetNaN(m, d), r |-> 0]
     ELSE IF d # a /\ d # b THEN genmul_separate(m1, d, a, b)
     ELSE IF blen <= env.buf THEN genmul_stack(m1, d, a, b)
     ELSE IF ~env.nomalloc /\ env.ok[1] THEN genmul_temp(m1, d, a, b)
     ELSE [m |-> SetNaN(m1, d), r |-> 0]

\* The calls of malloc and free a routine makes, in order: malloc for the
\* temporary p, which gave a block (ok) or NULL, and free of the block of p.
Malloc(p, ok) == [op |-> "malloc", p |-> p, ok |-> ok]
Free(p) == [op |-> "free", p |-> p, ok |-> TRUE]

\* The calls of genmul: none unless d is a or b and the size is beyond the
\* stack budget; t is freed in the branch that obtained it.
genmul_log(m, d, a, b, env) ==
  IF m[d].h # m[a].h \/ m[d].h # m[b].h THEN <<>>
  ELSE IF d # a /\ d # b THEN <<>>
  ELSE IF ((m[d].h + 2 * WordBits - 1) \div WordBits) * SizeofWord <= env.buf THEN <<>>
  ELSE IF env.nomalloc THEN <<>>
  ELSE IF env.ok[1] THEN <<Malloc("t", TRUE), Free("t")>>
  ELSE <<Malloc("t", FALSE)>>

\* d[0] |= (r.v ^ 1) << 31, p being the memory and the r a routine returned.
OrNaN(p, d) == [p.m EXCEPT ![d].nan = BitOr(@, BitXor(p.r, 1))]

cttk_i31_mul(m, d, a, b, env) == OrNaN(genmul(m, d, a, b, env), d)

cttk_i31_mul_trunc(m, d, a, b, env) == SignExtendTop(genmul(m, d, a, b, env).m, d)

(***************************************************************************)
(* Shifts.  The count is n = 31 * nd + nm, a uint32_t.                     *)
(***************************************************************************)
\* genlsh, n >= bl: words u .. len - 1; r stays 1 iff every word of a is 0.
RECURSIVE lsh_zero_loop(_, _, _, _, _, _, _)
lsh_zero_loop(m, d, a, u, len, ctl, r) ==
  IF u >= len THEN [m |-> m, r |-> cttk_or(r, cttk_not(ctl))]
  ELSE lsh_zero_loop([m EXCEPT ![d].v[1 + u] =
                        BitAnd(m[a].v[1 + u], (ctl - 1) % WordMod)],
                     d, a, u + 1, len, ctl,
                     cttk_and(r, cttk_u32_eq0(m[a].v[1 + u])))

\* No test of the words shifted out.
lsh_dropped_none(m, a, u, low, ssa) == 1

\* for (u = len; u > len - nd; u --) r = r & (ssa == a[u])
RECURSIVE lsh_dropped(_, _, _, _, _)
lsh_dropped(m, a, u, low, ssa) ==
  IF u <= low THEN 1
  ELSE cttk_and(cttk_u32_eq(ssa, m[a].v[u]), lsh_dropped(m, a, u - 1, low, ssa))

\* for (u = len; u > nd; u --) d[u] = the shifted word, high to low.
RECURSIVE lsh_move(_, _, _, _, _, _, _)
lsh_move(m, d, a, u, nd, nm, ctl) ==
  IF u <= nd THEN m
  ELSE LET w0 == BitAnd(Shl(m[a].v[u - nd], nm), LimbMask)
           wd == IF nm = 0 THEN m[a].v[u - nd]
                 ELSE IF (u - nd) > 1
                      THEN BitOr(w0, Shr(m[a].v[u - nd - 1], LimbBits - nm))
                      ELSE w0
       IN lsh_move([m EXCEPT ![d].v[u] = cttk_u32_mux(ctl, wd, m[a].v[u])],
                   d, a, u - 1, nd, nm, ctl)

\* for (u = nd; u > 0; u --) d[u] = a[u] & (ctl.v - 1)
RECURSIVE lsh_clear(_, _, _, _, _)
lsh_clear(m, d, a, u, ctl) ==
  IF u <= 0 THEN m
  ELSE lsh_clear([m EXCEPT ![d].v[u] = BitAnd(m[a].v[u], (ctl - 1) % WordMod)],
                 d, a, u - 1, ctl)

\* The end of genlsh with the top word left as the shift made it.
lsh_top_as_shifted(m, d, r, ssa, ctl) ==
  LET h == m[d].h
      len == WordLen(h)
      hk == top_index(h)
      tt == BitAnd(signext(m[d].v[len], hk + 1), LimbMask)
      r3 == cttk_and(r, cttk_u32_eq(m[d].v[len], tt))
      r4 == cttk_and(r3, cttk_u32_eq0(Shr(BitXor(tt, ssa), hk)))
  IN [m |-> m, r |-> cttk_or(r4, cttk_not(ctl))]

\* The end of genlsh: the top word truncated to the size, and r, given the
\* r of the words shifted out and the sign ssa of the source.
lsh_top(m, d, r, ssa, ctl) ==
  LET h == m[d].h
      len == WordLen(h)
      hk == top_index(h)
      tt == BitAnd(signext(m[d].v[len], hk + 1), LimbMask)
      r3 == cttk_and(r, cttk_u32_eq(m[d].v[len], tt))
      r4 == cttk_and(r3, cttk_u32_eq0(Shr(BitXor(tt, ssa), hk)))
  IN [m |-> [m EXCEPT ![d].v[len] = tt], r |-> cttk_or(r4, cttk_not(ctl))]

\* Returns [m, r]: r = 0 iff the value overflows.
genlsh(m, d, a, nd, nm, ctl) ==
  LET m0 == [m EXCEPT ![d].h = m[a].h, ![d].nan = m[a].nan]
      h == m[a].h
      len == WordLen(h)
      ssa == BitAnd(NegW(Shr(m[a].v[len], LimbBits - 1)), LimbMask)
      r1 == lsh_dropped(m, a, len, len - nd, ssa)
      r2 == IF nm = 0 THEN r1
            ELSE cttk_and(r1, cttk_u32_eq0(
                   Shr(BitXor(m[a].v[len - nd], ssa), LimbBits - nm)))
  IN IF (LimbBits * nd + nm) >= BitLen(h)
     THEN lsh_zero_loop(m0, d, a, 0, len, ctl, 1)
     ELSE lsh_top(lsh_clear(lsh_move(m0, d, a, len, nd, nm, ctl), d, a, nd, ctl),
                  d, r2, ssa, ctl)

\* genrsh, low words: for (u = 0; u < bound; u ++) d[1 + u] = shifted word.
RECURSIVE rsh_move(_, _, _, _, _, _, _, _)
rsh_move(m, d, a, u, bound, nd, nm, ctl) ==
  IF u >= bound THEN m
  ELSE LET wa == IF nm = 0 THEN m[a].v[1 + u + nd]
                 ELSE BitAnd(BitOr(Shr(m[a].v[1 + u + nd], nm),
                                   Shl(m[a].v[2 + u + nd], LimbBits - nm)), LimbMask)
       IN rsh_move([m EXCEPT ![d].v[1 + u] = cttk_u32_mux(ctl, wa, m[a].v[1 + u])],
                   d, a, u + 1, bound, nd, nm, ctl)

\* d[len - nd] = the top word of a shifted, its sign above (nm # 0 only).
rsh_top(m, d, a, len, nd, nm, ssa, ctl) ==
  IF nm = 0 THEN m
  ELSE [m EXCEPT ![d].v[len - nd] =
          cttk_u32_mux(ctl,
            BitAnd(BitOr(Shr(m[a].v[len], nm), Shl(ssa, LimbBits - nm)), LimbMask),
            m[a].v[len - nd])]

\* for (u = from; u < len; u ++) d[1 + u] = mux(ctl, ssa, a[1 + u])
RECURSIVE rsh_fill(_, _, _, _, _, _, _)
rsh_fill(m, d, a, u, len, ssa, ctl) ==
  IF u >= len THEN [m |-> m, fault |-> FALSE]
  ELSE rsh_fill([m EXCEPT ![d].v[1 + u] = cttk_u32_mux(ctl, ssa, m[a].v[1 + u])],
                d, a, u + 1, len, ssa, ctl)

\* Returns [m, fault].  The test (n + 1) >= bl is made on uint32_t, where
\* n + 1 wraps; the loop bounds len - nd and len - nd - 1 are size_t, and a
\* negative difference wraps to a huge bound: the first iteration then reads
\* a[1 + nd] with nd >= len, a word outside the array.  That access is
\* undefined behaviour; the model records it (fault) and stops the call there.
genrsh(m, d, a, nd, nm, ctl) ==
  LET m0 == [m EXCEPT ![d].h = m[a].h, ![d].nan = m[a].nan]
      len == WordLen(m[a].h)
      ssa == BitAnd(NegW(Shr(m[a].v[len], LimbBits - 1)), LimbMask)
      bound == IF nm = 0 THEN len - nd ELSE len - nd - 1
  IN IF ((LimbBits * nd + nm + 1) % WordMod) >= BitLen(m[a].h)
     THEN rsh_fill(m0, d, a, 0, len, ssa, ctl)
     ELSE IF bound < 0 THEN [m |-> m0, fault |-> TRUE]
     ELSE rsh_fill(rsh_top(rsh_move(m0, d, a, 0, bound, nd, nm, ctl),
                           d, a, len, nd, nm, ssa, ctl),
                   d, a, len - nd, len, ssa, ctl)

cttk_i31_lsh(m, d, a, n) ==
  IF SizeDiffers(m, d, a) THEN SetNaN(m, d)
  ELSE OrNaN(genlsh(m, d, a, n \div LimbBits, n % LimbBits, 1), d)

cttk_i31_lsh_trunc(m, d, a, n) ==
  IF SizeDiffers(m, d, a) THEN SetNaN(m, d)
  ELSE genlsh(m, d, a, n \div LimbBits, n % LimbBits, 1).m

\* Returns [m, fault].
cttk_i31_rsh(m, d, a, n) ==
  IF SizeDiffers(m, d, a) THEN [m |-> SetNaN(m, d), fault |-> FALSE]
  ELSE genrsh(m, d, a, n \div LimbBits, n % LimbBits, 1)

\* p2m31[2 * i] and p2m31[2 * i + 1]: 2^i split by the limb size.
p2m31(i) == [nd |-> (2 ^ i) \div LimbBits, nm |-> (2 ^ i) % LimbBits]

\* The loop of lsh_prot and lsh_trunc_prot, rounds i .. 31, the source
\* being d after the first round; checked: r is folded into the NaN flag.
RECURSIVE lsh_prot_loop(_, _, _, _, _, _)
lsh_prot_loop(m, d, a, n, i, checked) ==
  IF i >= WordBits THEN m
  ELSE lsh_prot_loop(
         IF checked
         THEN OrNaN(genlsh(m, d, a, p2m31(i).nd, p2m31(i).nm,
                           cttk_u32_neq0(BitAnd(n, Shl(1, i)))), d)
         ELSE genlsh(m, d, a, p2m31(i).nd, p2m31(i).nm,
                     cttk_u32_neq0(BitAnd(n, Shl(1, i)))).m,
         d, d, n, i + 1, checked)

\* The loop of rsh_prot; p is [m, fault] as the rounds before i left it.
RECURSIVE rsh_prot_loop(_, _, _, _, _)
rsh_prot_loop(p, d, a, n, i) ==
  IF i >= WordBits \/ p.fault THEN p
  ELSE rsh_prot_loop(genrsh(p.m, d, a, p2m31(i).nd, p2m31(i).nm,
                            cttk_u32_neq0(BitAnd(n, Shl(1, i)))),
                     d, d, n, i + 1)

cttk_i31_lsh_prot(m, d, a, n) ==
  IF SizeDiffers(m, d, a) THEN SetNaN(m, d)
  ELSE lsh_prot_loop(m, d, a, n, 0, TRUE)

cttk_i31_lsh_trunc_prot(m, d, a, n) ==
  IF SizeDiffers(m, d, a) THEN SetNaN(m, d)
  ELSE lsh_prot_loop(m, d, a, n, 0, FALSE)

\* Returns [m, fault].
cttk_i31_rsh_prot(m, d, a, n) ==
  IF SizeDiffers(m, d, a) THEN [m |-> SetNaN(m, d), fault |-> FALSE]
  ELSE rsh_prot_loop([m |-> m, fault |-> FALSE], d, a, n, 0)
(***************************************************************************)
(* Conversion between sizes.                                               *)
(***************************************************************************)
\* The words of a above those of d are not looked at.
set_tail_none(v, u, alen, msk, w) == w

\* for (u = dlen; u < alen; u ++) w |= a[u + 1] ^ m
RECURSIVE set_tail(_, _, _, _, _)
set_tail(v, u, alen, msk, w) ==
  IF u >= alen THEN w
  ELSE set_tail(v, u + 1, alen, msk, BitOr(w, BitXor(v[u + 1], msk)))

cttk_i31_set(m, d, a) ==
  IF a = d THEN m
  ELSE LET alen == WordLen(m[a].h)
           h == m[d].h
           dlen == WordLen(h)
           sa == Shr(NegW(Shr(m[a].v[alen], LimbBits - 1)), 1)
       IN IF dlen > alen
          THEN [m EXCEPT ![d].nan = m[a].nan,
                         ![d].v = Stored([i \in 1..dlen |->
                                     IF i <= alen THEN m[a].v[i] ELSE sa])]
          ELSE LET w0 == BitAnd(BitXor(m[a].v[dlen], sa), Shl(WordMod - 1, top_index(h)))
                   w == set_tail(m[a].v, dlen, alen, sa, w0)
               IN [m EXCEPT ![d].nan = BitOr(m[a].nan,
                                             Shr(BitOr(w, NegW(w)), WordBits - 1)),
                            ![d].v = Stored([i \in 1..dlen |-> m[a].v[i]])]

cttk_i31_set_trunc(m, d, a) ==
  IF a = d THEN m
  ELSE LET alen == WordLen(m[a].h)
           h == m[d].h
           dlen == WordLen(h)
           sa == Shr(NegW(Shr(m[a].v[alen], LimbBits - 1)), 1)
       IN IF dlen > alen
          THEN [m EXCEPT ![d].nan = m[a].nan,
                         ![d].v = Stored([i \in 1..dlen |->
                                     IF i <= alen THEN m[a].v[i] ELSE sa])]
          ELSE LET mm == Shl(1, top_index(h))
                   sb == BitAnd(m[a].v[dlen], mm)
                   top == BitOr(BitAnd(m[a].v[dlen], mm - 1),
                                BitAnd(NegW(sb), LimbMask))
               IN [m EXCEPT ![d].nan = m[a].nan,
                            ![d].v = Stored([i \in 1..dlen |->
                                        IF i = dlen THEN top ELSE m[a].v[i]])]

(***************************************************************************)
(* Bitwise operations.                                                     *)
(***************************************************************************)
cttk_i31_and(m, d, a, b) ==
  IF m[d].h # m[a].h \/ m[d].h # m[b].h THEN SetNaN(m, d)
  ELSE [m EXCEPT ![d].nan = BitOr(m[a].nan, m[b].nan),
                 ![d].v = Stored([u \in 1..WordLen(m[d].h) |-> BitAnd(m[a].v[u], m[b].v[u])])]

cttk_i31_or(m, d, a, b) ==
  IF m[d].h # m[a].h \/ m[d].h # m[b].h THEN SetNaN(m, d)
  ELSE [m EXCEPT ![d].nan = BitOr(m[a].nan, m[b].nan),
                 ![d].v = Stored([u \in 1..WordLen(m[d].h) |-> BitOr(m[a].v[u], m[b].v[u])])]

cttk_i31_xor(m, d, a, b) ==
  IF m[d].h # m[a].h \/ m[d].h # m[b].h THEN SetNaN(m, d)
  ELSE [m EXCEPT ![d].nan = BitOr(m[a].nan, m[b].nan),
                 ![d].v = Stored([u \in 1..WordLen(m[d].h) |-> BitXor(m[a].v[u], m[b].v[u])])]

cttk_i31_eqv(m, d, a, b) ==
  IF m[d].h # m[a].h \/ m[d].h # m[b].h THEN SetNaN(m, d)
  ELSE [m EXCEPT ![d].nan = BitOr(m[a].nan, m[b].nan),
                 ![d].v = Stored([u \in 1..WordLen(m[d].h) |->
                             BitXor(BitXor(m[a].v[u], m[b].v[u]), LimbMask)])]

cttk_i31_not(m, d, a) ==
  IF m[d].h # m[a].h THEN SetNaN(m, d)
  ELSE [m EXCEPT ![d].nan = m[a].nan,
                 ![d].v = Stored([u \in 1..WordLen(m[d].h) |-> BitXor(m[a].v[u], LimbMask)])]


(***************************************************************************)
(* Conversion from and to 32-bit and 64-bit integers.  A uint64_t is a     *)
(* double word, of 2 * WordBits bits: 64 is DWordBits, 62 is 2 * LimbBits, *)
(* 63 is 2 * LimbBits + 1 and 65 is DWordBits + 1.  A signed C value is    *)
(* given by its two's complement.                                          *)
(***************************************************************************)
DWordBits == 2 * WordBits
DWordMod == WordMod * WordMod

\* x << n and -x on a uint64_t.
Shl64(x, n) == (x * (2 ^ n)) % DWordMod
Neg64(x) == (DWordMod - x) % DWordMod

cttk_u64_neq0(x) ==
  LET q == BitOr(x, Neg64(x)) IN Shr(BitOr(q, Neg64(q)), DWordBits - 1)

cttk_u32_gt(x, y) ==
  LET z == (y - x) % WordMod
  IN Shr(BitXor(z, BitAnd(BitXor(x, y), BitXor(x, z))), WordBits - 1)
cttk_u32_lt(x, y) == cttk_u32_gt(y, x)

cttk_u64_gt(x, y) ==
  LET z == (y - x) % DWordMod
  IN Shr(BitXor(z, BitAnd(BitXor(x, y), BitXor(x, z))), DWordBits - 1)
cttk_u64_lt(x, y) == cttk_u64_gt(y, x)

\* The smallest n such that x < 2^n (the source finds it by halving a
\* 32-bit word five times).
RECURSIVE cttk_u32_bitlength(_)
cttk_u32_bitlength(x) == IF x = 0 THEN 0 ELSE 1 + cttk_u32_bitlength(x \div 2)

\* No overflow is seen.
set_no_overflow(v, size) == 0

\* The NaN flag of set_u64: set when v has a bit at size - 1 or above.
set_u64_overflow(v, size) ==
  IF size <= DWordBits THEN cttk_u64_neq0(Shr(v, size - 1)) ELSE 0

cttk_i31_set_u64(m, x, v) ==
  LET h == m[x].h
      len == WordLen(h)
      size == BitLen(h)
      v1 == Stored([i \in 1..len |->
               IF i = 1 THEN BitAnd(v % WordMod, LimbMask)
               ELSE IF i = 2 /\ size > LimbBits
               THEN BitAnd(Shr(v, LimbBits) % WordMod, LimbMask)
               ELSE IF i = 3 /\ size > 2 * LimbBits
               THEN Shr(v, 2 * LimbBits) % WordMod
               ELSE 0])
  IN [m EXCEPT ![x] = [h |-> h, nan |-> set_u64_overflow(v, size), v |-> v1]]

\* The NaN flag of set_s64: set when the bits of w at size - 1 and above are
\* not all equal.
set_s64_overflow(w, size) ==
  IF size < DWordBits
  THEN LET mk == Shl64(DWordMod - 1, size - 1)
           wm == BitAnd(w, mk)
       IN BitAnd(cttk_u64_neq0(wm), cttk_u64_neq0(BitXor(wm, mk)))
  ELSE 0

cttk_i31_set_s64(m, x, w) ==
  LET h == m[x].h
      len == WordLen(h)
      size == BitLen(h)
      hh == Shr(NegW(Shr(w, 2 * LimbBits + 1) % WordMod), 1)
      v1 == Stored([i \in 1..len |->
               IF i = 1 THEN BitAnd(w % WordMod, LimbMask)
               ELSE IF size >= 2 * LimbBits + 1
               THEN (IF i = 2 THEN BitAnd(Shr(w, LimbBits) % WordMod, LimbMask)
                     ELSE IF i = 3
                     THEN BitAnd(signext(Shr(w, 2 * LimbBits) % WordMod, 2), LimbMask)
                     ELSE hh)
               ELSE IF size >= WordBits /\ i = 2
               THEN BitAnd(Shr(w, LimbBits) % WordMod, LimbMask)
               ELSE m[x].v[i]])
  IN [m EXCEPT ![x] = [h |-> h, nan |-> set_s64_overflow(w, size), v |-> v1]]

\* The low 32 bits of x (0 for a NaN); the int32_t getter returns the same
\* word.
cttk_i31_to_u32_trunc(m, x) ==
  LET r == m[x].v[1]
      r1 == IF m[x].h > WordBits
            THEN BitOr(r, Shl(m[x].v[2], LimbBits))
            ELSE BitOr(r, Shl(BitAnd(r, 2 ^ (LimbBits - 1)), 1))
  IN BitAnd(r1, (m[x].nan - 1) % WordMod)

\* The low 64 bits of x (0 for a NaN); the int64_t getter returns the same
\* double word.
cttk_i31_to_u64_trunc(m, x) ==
  LET h == m[x].h
      r == m[x].v[1]
      r1 == IF h > DWordBits
            THEN BitOr(r, BitOr(Shl64(m[x].v[2], LimbBits), Shl64(m[x].v[3], 2 * LimbBits)))
            ELSE IF h > WordBits
            THEN LET r2 == BitOr(r, Shl64(m[x].v[2], LimbBits))
                 IN BitOr(r2, Neg64(BitAnd(r2, 2 ^ (2 * LimbBits - 1))))
            ELSE BitOr(r, Neg64(BitAnd(r, 2 ^ (LimbBits - 1))))
  IN BitAnd(r1, (m[x].nan - 1) % DWordMod)

\* The loop of real_bitlength: t and g are the value and the index of the
\* topmost word that differs from the sign pattern mx.
RECURSIVE bitlength_loop(_, _, _, _, _, _)
bitlength_loop(v, u, len, mx, t, g) ==
  IF u >= len THEN <<t, g>>
  ELSE LET w == BitXor(v[u + 1], mx)
           nz == cttk_u32_neq0(w)
       IN bitlength_loop(v, u + 1, len, mx, cttk_u32_mux(nz, w, t), cttk_u32_mux(nz, u, g))

real_bitlength(m, x) ==
  LET h == m[x].h
      len == WordLen(h)
      mx == Shr(NegW(BitAnd(Shr(m[x].v[len], top_index(h)), 1)), 1)
      tg == bitlength_loop(m[x].v, 1, len, mx, m[x].v[1], 0)
  IN (cttk_u32_bitlength(tg[1]) + tg[2] * WordBits - tg[2]) % WordMod

cttk_i31_to_u32(m, x) ==
  LET r == cttk_i31_to_u32_trunc(m, x)
      r1 == BitAnd(r, NegW(cttk_u32_lt(real_bitlength(m, x), WordBits + 1)))
  IN BitAnd(r1, (val_lt0(m, x) - 1) % WordMod)

cttk_i31_to_s32(m, x) ==
  BitAnd(cttk_i31_to_u32_trunc(m, x),
         NegW(cttk_u32_lt(real_bitlength(m, x), WordBits)))

cttk_i31_to_u64(m, x) ==
  LET r == cttk_i31_to_u64_trunc(m, x)
      r1 == BitAnd(r, Neg64(cttk_u32_lt(real_bitlength(m, x), DWordBits + 1)))
  IN BitAnd(r1, (val_lt0(m, x) - 1) % DWordMod)

cttk_i31_to_s64(m, x) ==
  BitAnd(cttk_i31_to_u64_trunc(m, x),
         Neg64(cttk_u64_lt(real_bitlength(m, x), DWordBits)))
(***************************************************************************)
(* Division.  q may be NULL; the temporaries are arrays "t1", "t2" and,   *)
(* when the caller gives no r, "tr", added to the memory for the call.     *)
(***************************************************************************)
\* The first loop of gendiv_inner over the words below the top one.  The
\* assignment to b_ismone reads b_iszero, as the source does.
RECURSIVE div_flags(_, _, _, _, _, _)
div_flags(m, a, b, u, len, f) ==
  IF (u + 1) >= len THEN f
  ELSE div_flags(m, a, b, u + 1, len,
         [a_isminv |-> cttk_and(f.a_isminv, cttk_u32_eq0(m[a].v[1 + u])),
          b_isminv |-> cttk_and(f.b_isminv, cttk_u32_eq0(m[b].v[1 + u])),
          b_iszero |-> cttk_and(f.b_iszero, cttk_u32_eq0(m[b].v[1 + u])),
          b_ismone |-> cttk_and(cttk_and(f.b_iszero, cttk_u32_eq0(m[b].v[1 + u])),
                                cttk_u32_eq(m[b].v[1 + u], LimbMask))])

\* The special cases and the signs gendiv_inner works out before it writes
\* anything; f is what the loop above leaves.
div_special(m, a, b, f) ==
  LET h == m[b].h
      len == WordLen(h)
      minv == BitAnd(Shl(WordMod - 1, top_index(h)), LimbMask)
  IN [a_isnan |-> cttk_i31_isnan(m, a),
      b_isnan |-> cttk_i31_isnan(m, b),
      a_isminv |-> cttk_and(f.a_isminv, cttk_u32_eq(m[a].v[len], minv)),
      b_isminv |-> cttk_and(f.b_isminv, cttk_u32_eq(m[b].v[len], minv)),
      b_iszero |-> cttk_and(f.b_iszero, cttk_u32_eq0(m[b].v[len])),
      b_ismone |-> cttk_and(f.b_ismone, cttk_u32_eq(m[b].v[len], LimbMask)),
      sa |-> Shr(m[a].v[len], LimbBits - 1),
      sb |-> Shr(m[b].v[len], LimbBits - 1)]

\* One round of the loop of gendiv_inner, for bit k of the quotient: m is the
\* memory after the cttk_i31_lsh(t1, b, k) of the round and e the result of
\* cttk_i31_leq(t1, r).  Bit k of q is bit um of q[1 + ud].
div_bit(m, q, r, t1, k, e) ==
  LET m3 == cttk_i31_cond_copy(cttk_i31_sub(m, t1, r, t1), e, r, t1)
  IN IF q = NULL THEN m3
     ELSE [m3 EXCEPT ![q].v[1 + (k \div LimbBits)] = BitOr(@, Shl(e, k % LimbBits))]

\* A round that subtracts only when t1 < r.
div_round_strict(m, q, r, t1, k) == div_bit(m, q, r, t1, k, cttk_i31_lt(m, t1, r))

div_round(m, q, r, t1, k) == div_bit(m, q, r, t1, k, cttk_i31_leq(m, t1, r))

\* while (n -- > 0): the rounds for the bits hi down to lo (the rounds are
\* run by halves, the upper bits before the lower).
RECURSIVE div_loop(_, _, _, _, _, _, _)
div_loop(m, q, r, b, t1, hi, lo) ==
  IF hi < lo THEN m
  ELSE IF hi = lo THEN div_round(cttk_i31_lsh(m, t1, b, hi), q, r, t1, hi)
  ELSE Then(div_loop(m, q, r, b, t1, hi, (hi + lo) \div 2 + 1), LAMBDA m1 :
            div_loop(m1, q, r, b, t1, (hi + lo) \div 2, lo))

\* Set q to 0 (if defined); len is (h + 31) >> 5.
div_clear_q(m, q, len) ==
  IF q = NULL THEN m
  ELSE [m EXCEPT ![q].nan = 0, ![q].v = Stored([i \in 1..len |-> 0])]

\* if (q != NULL): q = 0 when b is MinValue, then the sign of q, then the +1
\* or -1 when a is MinValue.
div_sign_q(m, q, t1, f) ==
  IF q = NULL THEN m
  ELSE cttk_i31_add(
         cttk_i31_set_s32(
           cttk_i31_cond_copy(
             cttk_i31_neg(
               cttk_i31_cond_copy(cttk_i31_set_u32_trunc(m, t1, 0), f.b_isminv, q, t1),
               t1, q),
             BitXor(f.sa, f.sb), q, t1),
           t1, cttk_s32_mux(BitXor(f.sa, f.sb), NegW(f.a_isminv), f.a_isminv)),
         q, q, t1)

div_sign_r(m, r, t1, f) == cttk_i31_cond_copy(cttk_i31_neg(m, t1, r), f.sa, r, t1)

\* No special case for b == MinValue.
div_bmin_none(m, q, r, t1, f) == m

\* The special cases for b == MinValue.
div_bmin(m, q, r, t1, f) ==
  Then(cttk_i31_set_u32_trunc(m, t1, 0), LAMBDA m1 :
  Then(IF q = NULL THEN m1
       ELSE cttk_i31_cond_copy(m1, cttk_and(f.b_isminv, cttk_not(f.a_isminv)), q, t1),
       LAMBDA m2 :
  Then(cttk_i31_cond_copy(m2, cttk_and(f.b_isminv, f.a_isminv), r, t1), LAMBDA m3 :
  IF q = NULL THEN m3
  ELSE cttk_i31_cond_copy(cttk_i31_set_u32(m3, t1, 1),
                          cttk_and(f.b_isminv, f.a_isminv), q, t1))))

\* The NaN condition without the test of b == 0.
nan_operand(f) == cttk_or(f.a_isnan, f.b_isnan)

\* Apply NaN conditions.
both_nan(f) == cttk_or(cttk_or(f.a_isnan, f.b_isnan), f.b_iszero)
half_nan(f) == cttk_and(f.a_isminv, f.b_ismone)

div_nan(m, q, r, t1, f) ==
  Then(IF q = NULL THEN m
       ELSE [m EXCEPT ![q].nan = BitOr(@, cttk_or(both_nan(f), half_nan(f)))],
       LAMBDA m1 :
  Then([m1 EXCEPT ![r].nan = BitOr(@, both_nan(f))], LAMBDA m2 :
  cttk_i31_cond_copy(cttk_i31_set_u32_trunc(m2, t1, 0), half_nan(f), r, t1)))

\* The extra step of a modular reduction; sr is r[len] >> 30 as read before
\* the step.
div_mod_step(m, r, t1, t2, b_isminv, sr) ==
  [cttk_i31_cond_copy(cttk_i31_add(m, t1, r, t2),
                      cttk_and(sr, cttk_not(b_isminv)), r, t1)
     EXCEPT ![r].v[WordLen(m[r].h)] =
       BitXor(@, BitAnd(Shl(NegW(BitAnd(sr, b_isminv)), top_index(m[r].h)), LimbMask))]

\* No extra step.
div_mod_none(m, r, t1, t2, mod, f) == m

div_mod(m, r, t1, t2, mod, f) ==
  IF mod
  THEN div_mod_step(m, r, t1, t2, f.b_isminv, Shr(m[r].v[WordLen(m[r].h)], LimbBits - 1))
  ELSE m

\* gendiv_inner after its first loop, f being the special cases and signs:
\* |b| into t2, then r = |a| or |a + |b||, q = 0, the loop, the signs, the
\* special cases and the NaN conditions.
gendiv_steps(m, q, r, a, b, t1, t2, mod, f) ==
  Then(cttk_i31_cond_copy(cttk_i31_neg(m, t2, b), cttk_u32_eq0(f.sb), t2, b),
       LAMBDA m1 :
  Then(cttk_i31_cond_copy(cttk_i31_add(m1, t1, a, t2), cttk_not(f.a_isminv), t1, a),
       LAMBDA m2 :
  Then(cttk_i31_neg(m2, r, t1), LAMBDA m3 :
  Then(cttk_i31_cond_copy(
         m3, cttk_not(Shr(m3[t1].v[WordLen(m3[t1].h)], LimbBits - 1)), r, t1),
       LAMBDA m4 :
  Then(div_clear_q(m4, q, WordLen(m[b].h)), LAMBDA m5 :
  Then(div_loop(m5, q, r, t2, t1, BitLen(m[b].h) - 1, 0), LAMBDA m6 :
  Then(div_sign_q(m6, q, t1, f), LAMBDA m7 :
  Then(div_sign_r(m7, r, t1, f), LAMBDA m8 :
  Then(div_bmin(m8, q, r, t1, f), LAMBDA m9 :
  Then(div_nan(m9, q, r, t1, f), LAMBDA m10 :
  div_mod(m10, r, t1, t2, mod, f)))))))))))

gendiv_inner(m, q, r, a, b, t1, t2, mod) ==
  gendiv_steps(m, q, r, a, b, t1, t2, mod,
    div_special(m, a, b,
      div_flags(m, a, b, 0, WordLen(m[b].h),
        [a_isminv |-> 1, b_isminv |-> 1, b_iszero |-> 1, b_ismone |-> 1])))

\* The memory without the temporaries ts.
RECURSIVE WithoutTemps(_, _)
WithoutTemps(m, ts) ==
  IF ts = <<>> THEN m ELSE WithoutTemps(WithoutTemp(m, Head(ts)), Tail(ts))

\* A temporary of the stack: zeroed, then its header word set to a[0].  In
\* gendiv_stack3 and in gendiv_stack2 the arrays have CTTK_MAX_INT_BUF /
\* (3 * sizeof(uint32_t)) words; the sizes explored here stay below that, and
\* only the words of the value are kept.
StackTemp(m, a) ==
  [h |-> m[a].h, nan |-> m[a].nan, v |-> Stored([i \in 1..WordLen(m[a].h) |-> 0])]

gendiv_stack3(m, q, a, b, mod) ==
  WithoutTemps(
    gendiv_inner(
      WithTemp(WithTemp(WithTemp(m, "tr", StackTemp(m, a)), "t1", StackTemp(m, a)),
               "t2", StackTemp(m, a)),
      q, "tr", a, b, "t1", "t2", mod),
    <<"tr", "t1", "t2">>)

gendiv_stack2(m, q, r, a, b, mod) ==
  WithoutTemps(
    gendiv_inner(
      WithTemp(WithTemp(m, "t1", StackTemp(m, a)), "t2", StackTemp(m, a)),
      q, r, a, b, "t1", "t2", mod),
    <<"t1", "t2">>)

\* The heap branches: the blocks are as malloc returns them (env.junk).
gendiv_heap3(m, q, a, b, mod, env) ==
  WithoutTemps(
    gendiv_inner(
      WithTemp(WithTemp(WithTemp(m, "tr", env.junk), "t1", env.junk), "t2", env.junk),
      q, "tr", a, b, "t1", "t2", mod),
    <<"tr", "t1", "t2">>)

gendiv_heap2(m, q, r, a, b, mod, env) ==
  WithoutTemps(
    gendiv_inner(WithTemp(WithTemp(m, "t1", env.junk), "t2", env.junk),
                 q, r, a, b, "t1", "t2", mod),
    <<"t1", "t2">>)

\* Could not find enough memory for temporaries; also the mismatch of a and b.
gendiv_fail(m, q, r) ==
  Stored([p \in DOMAIN m |-> IF p \in {q, r} THEN [m[p] EXCEPT !.nan = 1] ELSE m[p]])

\* wlen = (h + 63) >> 5 words for each temporary.
gendiv(m, q, r, a, b, mod, env) ==
  IF r = NULL
  THEN IF (m[a].h + 2 * WordBits - 1) \div WordBits <= env.buf \div (3 * SizeofWord)
       THEN gendiv_stack3(m, q, a, b, mod)
       ELSE IF ~env.nomalloc /\ env.ok[1] /\ env.ok[2] /\ env.ok[3]
            THEN gendiv_heap3(m, q, a, b, mod, env)
            ELSE gendiv_fail(m, q, r)
  ELSE IF (m[a].h + 2 * WordBits - 1) \div WordBits <= env.buf \div (2 * SizeofWord)
       THEN gendiv_stack2(m, q, r, a, b, mod)
       ELSE IF ~env.nomalloc /\ env.ok[1] /\ env.ok[2]
            THEN gendiv_heap2(m, q, r, a, b, mod, env)
            ELSE gendiv_fail(m, q, r)

\* A destination of cttk_i31_divrem of another size than a is made NaN and
\* replaced with NULL.
divrem_dest(m, p, a) == IF p # NULL /\ SizeDiffers(m, p, a) THEN NULL ELSE p
divrem_skipped(m, p, a) == IF p # NULL /\ SizeDiffers(m, p, a) THEN p ELSE NULL

\* cttk_i31_divrem once a and b have one size and q, r are NULL or of that size.
divrem_checked(m, q, r, a, b, env) ==
  IF q = NULL /\ r = NULL THEN m
  ELSE IF q = r THEN gendiv_fail(m, q, r)
  ELSE gendiv(m, q, r, a, b, FALSE, env)

cttk_i31_divrem(m, q, r, a, b, env) ==
  IF SizeDiffers(m, a, b) THEN gendiv_fail(m, q, r)
  ELSE divrem_checked(gendiv_fail(m, divrem_skipped(m, q, a), divrem_skipped(m, r, a)),
                      divrem_dest(m, q, a), divrem_dest(m, r, a), a, b, env)

cttk_i31_mod(m, d, a, b, env) ==
  IF SizeDiffers(m, d, a) \/ SizeDiffers(m, d, b) THEN SetNaN(m, d)
  ELSE gendiv(m, NULL, d, a, b, TRUE, env)

\* The words of each array of gendiv_stack3 and gendiv_stack2, and the words
\* wlen = (h + 63) >> 5 that gendiv_inner uses of each temporary.
TempWords(env) == env.buf \div (3 * SizeofWord)
gendiv_wlen(m, a) == (m[a].h + 2 * WordBits - 1) \div WordBits

\* gendiv takes a stack branch whose arrays are shorter than wlen words: the
\* inner division then writes past their end.
gendiv_overrun(m, r, a, env) ==
  IF r = NULL
  THEN /\ gendiv_wlen(m, a) <= env.buf \div (3 * SizeofWord)
       /\ gendiv_wlen(m, a) > TempWords(env)
  ELSE /\ gendiv_wlen(m, a) <= env.buf \div (2 * SizeofWord)
       /\ gendiv_wlen(m, a) > TempWords(env)

\* The calls of cttk_i31_divrem and cttk_i31_mod that reach such a branch.
divrem_overrun(m, q, r, a, b, env) ==
  /\ ~SizeDiffers(m, a, b)
  /\ divrem_dest(m, q, a) # divrem_dest(m, r, a)
  /\ gendiv_overrun(m, divrem_dest(m, r, a), a, env)

mod_overrun(m, d, a, b, env) ==
  /\ ~SizeDiffers(m, d, a) /\ ~SizeDiffers(m, d, b)
  /\ gendiv_overrun(m, d, a, env)

\* The calls of malloc of a heap branch of gendiv for the temporaries ts, and
\* the calls of free: one for each block obtained, whether all were or not.
RECURSIVE heap_mallocs(_, _, _)
heap_mallocs(ts, ok, u) ==
  IF u > Len(ts) THEN <<>> ELSE <<Malloc(ts[u], ok[u])>> \o heap_mallocs(ts, ok, u + 1)

\* Blocks are released only when every allocation succeeded.
RECURSIVE heap_frees_all_or_none(_, _, _)
heap_frees_all_or_none(ts, ok, u) ==
  IF u > Len(ts) \/ \E k \in 1..Len(ts) : ~ok[k] THEN <<>>
  ELSE <<Free(ts[u])>> \o heap_frees_all_or_none(ts, ok, u + 1)

RECURSIVE heap_frees(_, _, _)
heap_frees(ts, ok, u) ==
  IF u > Len(ts) THEN <<>>
  ELSE (IF ok[u] THEN <<Free(ts[u])>> ELSE <<>>) \o heap_frees(ts, ok, u + 1)

gendiv_heap_log(ts, env) ==
  IF env.nomalloc THEN <<>> ELSE heap_mallocs(ts, env.ok, 1) \o heap_frees(ts, env.ok, 1)

gendiv_log(m, r, a, env) ==
  IF r = NULL
  THEN IF gendiv_wlen(m, a) <= env.buf \div (3 * SizeofWord) THEN <<>>
       ELSE gendiv_heap_log(<<"tr", "t1", "t2">>, env)
  ELSE IF gendiv_wlen(m, a) <= env.buf \div (2 * SizeofWord) THEN <<>>
       ELSE gendiv_heap_log(<<"t1", "t2">>, env)

divrem_log(m, q, r, a, b, env) ==
  IF SizeDiffers(m, a, b) \/ divrem_dest(m, q, a) = divrem_dest(m, r, a) THEN <<>>
  ELSE gendiv_log(m, divrem_dest(m, r, a), a, env)

mod_log(m, d, a, b, env) ==
  IF SizeDiffers(m, d, a) \/ SizeDiffers(m, d, b) THEN <<>> ELSE gendiv_log(m, d, a, env)

\* The calls of malloc and free of the call c.
malloc_log(m, c, env) ==
  CASE c.op \in {"mul", "mul_trunc"} -> genmul_log(m, c.d, c.a, c.b, env)
    [] c.op = "divrem" -> divrem_log(m, c.d, c.e, c.a, c.b, env)
    [] c.op = "mod" -> mod_log(m, c.d, c.a, c.b, env)
    [] OTHER -> <<>>

(***************************************************************************)
(* Encoding to bytes and decoding from bytes.  A byte has ByteBits bits    *)
(* (8 in the source, where a word carries 31): 0xFF is ByteMask, 7 is      *)
(* ByteBits - 1 and 23 is LimbBits - ByteBits.  ByteBits does not divide   *)
(* LimbBits, as 8 does not divide 31, so that bytes straddle two words.    *)
(* A buffer is a sequence of bytes, src[1] being buf[0].                   *)
(***************************************************************************)
ByteMod == 2 ^ ByteBits
ByteMask == ByteMod - 1
Bytes == 0..ByteMask

\* No sign byte: zero beyond the source buffer.
dec_ssb_zero(src, be, sig) == 0

\* ssb, the value used for bytes beyond the source buffer.
dec_ssb(src, be, sig) ==
  IF sig = 1
  THEN BitAnd(NegW(Shr(IF be = 1 THEN src[1] ELSE src[Len(src)], ByteBits - 1)), ByteMask)
  ELSE 0

\* The next byte of input, pos counting from the least significant.
dec_byte(src, be, ssb, pos) ==
  IF pos < Len(src)
  THEN IF be = 1 THEN src[Len(src) - pos] ELSE src[pos + 1]
  ELSE ssb

\* The byte b put at u:k when a word is still to fill: whole in x[1 + u],
\* or split over x[1 + u] and x[2 + u], or its high bits kept as the extra
\* bits when x[1 + u] is the last word.
dec_fill(s, b, len) ==
  IF s.k <= LimbBits - ByteBits
  THEN [s EXCEPT !.v[1 + s.u] = BitOr(@, Shl(b, s.k))]
  ELSE IF s.u + 1 < len
  THEN [s EXCEPT !.v[1 + s.u] = BitOr(@, BitAnd(Shl(b, s.k), LimbMask)),
                 !.v[2 + s.u] = BitOr(@, Shr(b, LimbBits - s.k))]
  ELSE [s EXCEPT !.v[1 + s.u] = BitOr(@, BitAnd(Shl(b, s.k), LimbMask)),
                 !.extra_bits = Shr(b, LimbBits - s.k),
                 !.extra_bits_len = s.k - (LimbBits - ByteBits)]

\* k += 8, and the move to the next word; ssx is set when the last word is
\* full.
dec_advance(s, len, hk) ==
  IF s.k + ByteBits >= LimbBits
  THEN [s EXCEPT !.k = s.k + ByteBits - LimbBits,
                 !.u = s.u + 1,
                 !.ssx = IF s.u + 1 = len
                         THEN BitAnd(NegW(BitAnd(Shr(s.v[len], hk), 1)), ByteMask)
                         ELSE @]
  ELSE [s EXCEPT !.k = s.k + ByteBits]

\* The loop of gendec.
RECURSIVE dec_loop(_, _, _, _, _, _)
dec_loop(s, src, be, ssb, len, hk) ==
  IF s.u < len \/ s.pos < Len(src)
  THEN LET b == dec_byte(src, be, ssb, s.pos)
           t == IF s.u < len
                THEN dec_advance(dec_fill(s, b, len), len, hk)
                ELSE [s EXCEPT !.in_range = cttk_and(@, cttk_u32_eq(b, s.ssx))]
       IN dec_loop([t EXCEPT !.pos = @ + 1], src, be, ssb, len, hk)
  ELSE s

\* The end of gendec without the range check.
dec_end_unchecked(a, s, len, hk, sig, trunc) ==
  [h |-> a.h, nan |-> 0,
   v |-> Stored([s.v EXCEPT ![len] = BitAnd(signext(s.v[len], hk + 1), LimbMask)])]

\* The end of gendec: the top word is sign-extended when truncating, and
\* otherwise checked, with the extra bits and the sign of an unsigned source.
dec_end(a, s, len, hk, sig, trunc) ==
  LET top == s.v[len]
      top2 == BitAnd(signext(top, hk + 1), LimbMask)
      r1 == cttk_and(s.in_range, cttk_u32_eq(top, top2))
      r2 == IF s.extra_bits_len > 0
            THEN cttk_and(r1, cttk_u32_eq(s.extra_bits,
                                          Shr(s.ssx, ByteBits - s.extra_bits_len)))
            ELSE r1
      r3 == IF sig = 0 THEN cttk_and(r2, cttk_u32_eq0(s.ssx)) ELSE r2
  IN IF trunc = 1
     THEN [h |-> a.h, nan |-> 0, v |-> Stored([s.v EXCEPT ![len] = top2])]
     ELSE [h |-> a.h, nan |-> cttk_not(r3), v |-> Stored(s.v)]

gendec(m, x, src, be, sig, trunc) ==
  LET h == m[x].h
      len == WordLen(h)
      zero == Stored([i \in 1..len |-> 0])
      hk == top_index(h)
      s0 == [v |-> zero, u |-> 0, k |-> 0, pos |-> 0, ssx |-> 0, in_range |-> 1,
             extra_bits |-> 0, extra_bits_len |-> 0]
  IN IF Len(src) = 0
     THEN [m EXCEPT ![x] = [h |-> h, nan |-> sig, v |-> zero]]
     ELSE [m EXCEPT ![x] = dec_end(m[x], dec_loop(s0, src, be, dec_ssb(src, be, sig), len, hk),
                                   len, hk, sig, trunc)]

\* One byte of genenc, always taken from acc: no further word is read.
enc_step_first_word(s, x, len, ssx) ==
  [s EXCEPT !.b = BitAnd(s.acc, ByteMask), !.acc = Shr(s.acc, ByteBits)]

\* One byte of genenc: taken whole from acc, or made of what acc still has
\* and of the low bits of the next word (ssx beyond the last one).
enc_step(s, x, len, ssx) ==
  IF s.acc_len >= ByteBits
  THEN [s EXCEPT !.b = BitAnd(s.acc, ByteMask),
                 !.acc = Shr(s.acc, ByteBits),
                 !.acc_len = s.acc_len - ByteBits]
  ELSE LET acc == IF s.u < len THEN x.v[1 + s.u] ELSE ssx
       IN [s EXCEPT !.b = BitOr(s.acc, Shl(acc, s.acc_len)),
                    !.acc = Shr(acc, ByteBits - s.acc_len),
                    !.acc_len = s.acc_len + (LimbBits - ByteBits),
                    !.u = IF s.u < len THEN s.u + 1 ELSE s.u]

\* The loop of genenc from the byte of index pos on: the bytes stored, the
\* least significant first.
RECURSIVE enc_loop(_, _, _, _, _, _, _)
enc_loop(s, pos, dst_len, x, len, ssx, mask) ==
  IF pos < dst_len
  THEN LET t == enc_step(s, x, len, ssx)
       IN <<BitAnd(BitAnd(t.b, mask), ByteMask)>>
            \o enc_loop(t, pos + 1, dst_len, x, len, ssx, mask)
  ELSE <<>>

\* genenc on the buffer buf, of at least dst_len bytes.
genenc(buf, dst_len, x, be) ==
  LET mask == (x.nan - 1) % WordMod
      len == WordLen(x.h)
      ssx == Shr(NegW(BitAnd(Shr(x.v[len], top_index(x.h)), 1)), 1)
      out == enc_loop([b |-> 0, acc |-> x.v[1], acc_len |-> LimbBits, u |-> 1],
                      0, dst_len, x, len, ssx, mask)
  IN [i \in 1..Len(buf) |->
        IF i > dst_len THEN buf[i]
        ELSE IF be = 1 THEN out[dst_len - i + 1] ELSE out[i]]
(***************************************************************************)
(* What a call shows to an observer of addresses and branches: the words   *)
(* it reads and writes (array and index, index 0 being the header, "buf"   *)
(* the byte buffer) and the branches it takes, in program order.  Each     *)
(* operator follows the control flow of its function, with the conditions  *)
(* the function tests.                                                     *)
(***************************************************************************)
Rd(p, i) == <<"read", p, i>>
Wr(p, i) == <<"write", p, i>>
Br(test, taken) == <<"branch", test, taken>>
Fault == <<"fault", NULL, 0>>

RECURSIVE Cat(_)
Cat(ss) == IF Len(ss) = 0 THEN <<>> ELSE Head(ss) \o Cat(Tail(ss))

\* The events of rounds 1 .. n of a loop, F(i) being those of round i.
Each(n, F(_)) == Cat([i \in 1..n |-> F(i)])

\* if (((d[0] ^ a[0]) << 1) != 0) { d[0] |= 0x80000000; return; }
size_trace(m, d, a) ==
  <<Rd(d, 0), Rd(a, 0), Br("size", SizeDiffers(m, d, a))>>
    \o (IF SizeDiffers(m, d, a) THEN <<Rd(d, 0), Wr(d, 0)>> ELSE <<>>)

\* genlsh: the tests are on n, nd, nm and the sizes; ctl only enters the
\* words stored.
lsh_events(m, d, a, nd, nm) ==
  LET h == m[a].h
      len == WordLen(h)
      n == LimbBits * nd + nm
      moved(i) ==
        LET u == len - i + 1
        IN IF nm = 0 THEN <<Rd(a, u - nd), Rd(a, u), Wr(d, u)>>
           ELSE <<Rd(a, u - nd), Br("(u - nd) > 1", (u - nd) > 1)>>
                  \o (IF (u - nd) > 1 THEN <<Rd(a, u - nd - 1)>> ELSE <<>>)
                  \o <<Rd(a, u), Wr(d, u)>>
  IN <<Rd(a, 0), Wr(d, 0), Rd(d, 0), Rd(a, len), Br("n >= bl", n >= BitLen(h))>>
       \o (IF n >= BitLen(h)
           THEN Each(len, LAMBDA i : <<Rd(a, i), Wr(d, i)>>)
           ELSE Each(nd, LAMBDA i : <<Rd(a, len - i + 1)>>)
                  \o <<Br("nm == 0", nm = 0)>>
                  \o (IF nm = 0 THEN <<>> ELSE <<Rd(a, len - nd)>>)
                  \o Each(len - nd, moved)
                  \o Each(nd, LAMBDA i : <<Rd(a, nd - i + 1), Wr(d, nd - i + 1)>>)
                  \o <<Rd(d, len), Rd(d, len), Wr(d, len)>>)

\* A round that is skipped when its bit of the count is clear.
genlsh_trace_if_ctl(m, d, a, nd, nm, ctl) ==
  IF ctl = 1 THEN lsh_events(m, d, a, nd, nm) ELSE <<>>

genlsh_trace(m, d, a, nd, nm, ctl) == lsh_events(m, d, a, nd, nm)

\* genrsh; when the size_t bound of the first loop wraps, its first round
\* reads a[1 + nd] outside the array.
genrsh_trace(m, d, a, nd, nm, ctl) ==
  LET h == m[a].h
      len == WordLen(h)
      n1 == (LimbBits * nd + nm + 1) % WordMod
      bound == IF nm = 0 THEN len - nd ELSE len - nd - 1
      moved(i) ==
        IF nm = 0 THEN <<Rd(a, i + nd), Rd(a, i), Wr(d, i)>>
        ELSE <<Rd(a, i + nd), Rd(a, i + 1 + nd), Rd(a, i), Wr(d, i)>>
  IN <<Rd(a, 0), Wr(d, 0), Rd(d, 0), Rd(a, len), Br("(n + 1) >= bl", n1 >= BitLen(h))>>
       \o (IF n1 >= BitLen(h)
           THEN Each(len, LAMBDA i : <<Rd(a, i), Wr(d, i)>>)
           ELSE <<Br("nm == 0", nm = 0)>>
                  \o (IF bound < 0 THEN <<Rd(a, 1 + nd), Fault>>
                      ELSE Each(bound, moved)
                             \o (IF nm = 0 THEN <<>>
                                 ELSE <<Rd(a, len), Rd(a, len - nd), Wr(d, len - nd)>>)
                             \o Each(nd, LAMBDA i : <<Rd(a, len - nd + i),
                                                      Wr(d, len - nd + i)>>)))

\* lsh and lsh_trunc; checked: r is folded into the header.
lsh_trace(m, d, a, n, checked) ==
  size_trace(m, d, a)
    \o (IF SizeDiffers(m, d, a) THEN <<>>
        ELSE genlsh_trace(m, d, a, n \div LimbBits, n % LimbBits, 1)
               \o (IF checked THEN <<Rd(d, 0), Wr(d, 0)>> ELSE <<>>))

rsh_trace(m, d, a, n) ==
  size_trace(m, d, a)
    \o (IF SizeDiffers(m, d, a) THEN <<>>
        ELSE genrsh_trace(m, d, a, n \div LimbBits, n % LimbBits, 1))

\* Rounds i .. 31 of lsh_prot and lsh_trunc_prot on the memory m the rounds
\* before left.
RECURSIVE lsh_prot_rounds(_, _, _, _, _, _)
lsh_prot_rounds(m, d, a, n, i, checked) ==
  IF i >= WordBits THEN <<>>
  ELSE genlsh_trace(m, d, a, p2m31(i).nd, p2m31(i).nm, cttk_u32_neq0(BitAnd(n, Shl(1, i))))
         \o (IF checked THEN <<Rd(d, 0), Wr(d, 0)>> ELSE <<>>)
         \o lsh_prot_rounds(
              IF checked
              THEN OrNaN(genlsh(m, d, a, p2m31(i).nd, p2m31(i).nm,
                                cttk_u32_neq0(BitAnd(n, Shl(1, i)))), d)
              ELSE genlsh(m, d, a, p2m31(i).nd, p2m31(i).nm,
                          cttk_u32_neq0(BitAnd(n, Shl(1, i)))).m,
              d, d, n, i + 1, checked)

lsh_prot_trace(m, d, a, n, checked) ==
  size_trace(m, d, a)
    \o (IF SizeDiffers(m, d, a) THEN <<>> ELSE lsh_prot_rounds(m, d, a, n, 0, checked))

\* Rounds i .. 31 of rsh_prot.
RECURSIVE rsh_prot_rounds(_, _, _, _, _)
rsh_prot_rounds(m, d, a, n, i) ==
  IF i >= WordBits THEN <<>>
  ELSE genrsh_trace(m, d, a, p2m31(i).nd, p2m31(i).nm, cttk_u32_neq0(BitAnd(n, Shl(1, i))))
         \o rsh_prot_rounds(
              genrsh(m, d, a, p2m31(i).nd, p2m31(i).nm,
                     cttk_u32_neq0(BitAnd(n, Shl(1, i)))).m,
              d, d, n, i + 1)

rsh_prot_trace(m, d, a, n) ==
  size_trace(m, d, a)
    \o (IF SizeDiffers(m, d, a) THEN <<>> ELSE rsh_prot_rounds(m, d, a, n, 0))

\* The loop of gendec from the byte v on, x being filled up to u:k.
RECURSIVE dec_rounds(_, _, _, _, _, _, _)
dec_rounds(x, u, k, v, len, src_len, be) ==
  IF u < len \/ v < src_len
  THEN LET full == k + ByteBits >= LimbBits
       IN <<Br("v < src_len", v < src_len)>>
            \o (IF v < src_len
                THEN <<Br("be", be = 1), Rd("buf", IF be = 1 THEN src_len - 1 - v ELSE v)>>
                ELSE <<>>)
            \o <<Br("u < len", u < len)>>
            \o (IF u < len
                THEN <<Br("k <= 23", k <= LimbBits - ByteBits), Rd(x, 1 + u), Wr(x, 1 + u)>>
                       \o (IF k <= LimbBits - ByteBits THEN <<>>
                           ELSE <<Br("(u + 1) < len", (u + 1) < len)>>
                                  \o (IF (u + 1) < len THEN <<Rd(x, 2 + u), Wr(x, 2 + u)>>
                                      ELSE <<>>))
                       \o <<Br("k >= 31", full)>>
                       \o (IF full
                           THEN <<Br("u == len", u + 1 = len)>>
                                  \o (IF u + 1 = len THEN <<Rd(x, len)>> ELSE <<>>)
                           ELSE <<>>)
                ELSE <<>>)
            \o dec_rounds(x, IF u < len /\ full THEN u + 1 ELSE u,
                          IF u >= len THEN k
                          ELSE IF full THEN k + ByteBits - LimbBits ELSE k + ByteBits,
                          v + 1, len, src_len, be)
  ELSE <<>>

\* gendec; extra_bits_len is the one the loop of gendec leaves.
gendec_trace(m, x, src, be, sig, trunc) ==
  LET h == m[x].h
      len == WordLen(h)
      s0 == [v |-> Stored([i \in 1..len |-> 0]), u |-> 0, k |-> 0, pos |-> 0, ssx |-> 0,
             in_range |-> 1, extra_bits |-> 0, extra_bits_len |-> 0]
      s == dec_loop(s0, src, be, dec_ssb(src, be, sig), len, top_index(h))
  IN <<Rd(x, 0), Wr(x, 0), Rd(x, 0)>>
       \o Each(len, LAMBDA i : <<Wr(x, i)>>)
       \o <<Br("src_len == 0", Len(src) = 0)>>
       \o (IF Len(src) = 0
           THEN <<Br("sig", sig = 1)>> \o (IF sig = 1 THEN <<Rd(x, 0), Wr(x, 0)>> ELSE <<>>)
           ELSE <<Br("sig", sig = 1)>>
                  \o (IF sig = 1
                      THEN <<Br("be", be = 1),
                             Rd("buf", IF be = 1 THEN 0 ELSE Len(src) - 1)>>
                      ELSE <<>>)
                  \o dec_rounds(x, 0, 0, 0, len, Len(src), be)
                  \o <<Rd(x, len), Br("trunc", trunc = 1)>>
                  \o (IF trunc = 1 THEN <<Wr(x, len)>>
                      ELSE <<Br("extra_bits_len > 0", s.extra_bits_len > 0),
                             Br("!sig", sig = 0), Rd(x, 0), Wr(x, 0)>>))

\* add, sub and their truncating forms: the sizes are compared with ||, the
\* header of b being read when that of a matches.
add_trace(m, d, a, b, trunc) ==
  LET len == WordLen(m[d].h)
      differ == SizeDiffers(m, d, a) \/ SizeDiffers(m, d, b)
  IN <<Rd(d, 0), Rd(a, 0)>>
       \o (IF SizeDiffers(m, d, a) THEN <<>> ELSE <<Rd(b, 0)>>)
       \o <<Br("size", differ)>>
       \o (IF differ THEN <<Rd(d, 0), Wr(d, 0)>>
           ELSE <<Rd(a, 0), Rd(b, 0), Wr(d, 0)>>
                  \o (IF trunc THEN <<>> ELSE <<Rd(a, len), Rd(b, len)>>)
                  \o Each(len, LAMBDA i : <<Rd(a, i), Rd(b, i), Wr(d, i)>>)
                  \o (IF trunc THEN <<Rd(d, len), Wr(d, len)>>
                      ELSE <<Rd(d, len), Rd(d, 0), Wr(d, 0)>>))

(***************************************************************************)
(* Base64 decoding.  A text is a sequence of characters 0 .. 255, src[1]   *)
(* being src[0] of the source; a pointer into the source is the index it   *)
(* points at, and *err is the set of these: empty when NULL.  The          *)
(* destination is a sequence of dst_len bytes, given or not (dst NULL).    *)
(***************************************************************************)
CTTK_B64DEC_NO_PAD == 1
CTTK_B64DEC_NO_WS == 2
HasFlag(flags, f) == BitAnd(flags, f) # 0

\* x & -c.v for a cttk_bool c.
Masked(x, c) == IF c THEN x ELSE 0

\* cttk_u32_lt((uint32_t)c - k, n) for a character c: the difference is a
\* uint32_t, and a negative one wraps to 2^32 - k + c or more, above n.
InRun(c, k, n) == c - k >= 0 /\ c - k < n

\* -1 if c is not a Base64 character, otherwise its value 0 .. 63.
b64val(c) ==
  LET z == BitOr(BitOr(BitOr(Masked(c - 65 + 1, InRun(c, 65, 26)),
                             Masked(c - 97 + 27, InRun(c, 97, 26))),
                       BitOr(Masked(c - 48 + 53, InRun(c, 48, 10)), Masked(63, c = 43))),
                 Masked(64, c = 47))
  IN z - 1

\* What the call leaves: the count returned, *err, the destination, and
\* whether a byte was stored outside it.
b64_result(s, err) == [count |-> s.v, err |-> err, dst |-> s.dst, fault |-> s.fault]

\* The loop over what follows the first '=' sign, from the character u on:
\* the second '=' sign of a group of two characters, and whitespace.
RECURSIVE b64_padding(_, _, _, _)
b64_padding(src, u, lc, nows) ==
  IF u >= Len(src) THEN [u |-> u, lc |-> lc, bad |-> FALSE]
  ELSE IF lc = 2 /\ src[u + 1] = 61 THEN b64_padding(src, u + 1, lc + 1, nows)
  ELSE IF src[u + 1] > 32 \/ nows THEN [u |-> u, lc |-> lc, bad |-> TRUE]
  ELSE b64_padding(src, u + 1, lc, nows)

\* An '=' sign taken for all the padding of a group of two characters.
b64_equals_one_sign(s, src, nows) ==
  IF s.lc < 2 \/ s.acc # 0 THEN b64_result(s, {s.u})
  ELSE LET p == b64_padding(src, s.u + 1, s.lc, nows)
       IN IF p.bad THEN b64_result(s, {p.u}) ELSE b64_result(s, {})

\* An '=' sign at the character u.
b64_equals(s, src, nows) ==
  IF s.lc < 2 \/ s.acc # 0 THEN b64_result(s, {s.u})
  ELSE LET p == b64_padding(src, s.u + 1, s.lc, nows)
       IN IF p.bad \/ p.lc = 2 THEN b64_result(s, {p.u}) ELSE b64_result(s, {})

\* The Base64 character of value d accumulated, and the byte stored when the
\* group has one.
b64_store(s, d, nodst) ==
  LET acc == BitOr(s.acc * 64, d)
      out == IF s.lc = 1 THEN acc \div 16 ELSE IF s.lc = 2 THEN acc \div 4 ELSE acc
      rest == IF s.lc = 1 THEN BitAnd(acc, 15) ELSE IF s.lc = 2 THEN BitAnd(acc, 3) ELSE 0
  IN IF s.lc = 0 THEN [s EXCEPT !.acc = acc, !.lc = 1, !.u = @ + 1]
     ELSE [s EXCEPT !.acc = rest, !.lc = (s.lc + 1) % 4, !.u = @ + 1, !.v = @ + 1,
                    !.dst = IF nodst \/ s.v >= Len(s.dst) THEN @
                            ELSE [@ EXCEPT ![s.v + 1] = out % 256],
                    !.fault = @ \/ (~nodst /\ s.v >= Len(s.dst))]

\* if (buf != NULL && v >= dst_len): no room is left in the destination.
b64_full(s, nodst) == ~nodst /\ s.v >= Len(s.dst)

\* The end of the source string.
b64_end(s, flags) ==
  IF HasFlag(flags, CTTK_B64DEC_NO_PAD)
  THEN IF s.lc = 1 \/ s.acc # 0 THEN b64_result(s, {s.u}) ELSE b64_result(s, {})
  ELSE IF s.lc # 0 THEN b64_result(s, {s.u}) ELSE b64_result(s, {})

\* The main loop from the character s.u on.
RECURSIVE b64_loop(_, _, _, _)
b64_loop(s, src, nodst, flags) ==
  IF s.u >= Len(src) THEN b64_end(s, flags)
  ELSE LET c == src[s.u + 1]
           d == b64val(c)
           nows == HasFlag(flags, CTTK_B64DEC_NO_WS)
       IN IF d < 0
          THEN IF ~nows /\ c <= 32 THEN b64_loop([s EXCEPT !.u = @ + 1], src, nodst, flags)
               ELSE IF c = 61 /\ ~HasFlag(flags, CTTK_B64DEC_NO_PAD)
               THEN b64_equals(s, src, nows)
               ELSE b64_result(s, {s.u})
          ELSE IF b64_full(s, nodst) THEN b64_result(s, {s.u})
               ELSE b64_loop(b64_store(s, d, nodst), src, nodst, flags)

\* dst is the destination as the caller gave it, nodst: dst is NULL.
cttk_b64tobin_gen(dst, nodst, src, flags) ==
  b64_loop([u |-> 0, v |-> 0, acc |-> 0, lc |-> 0, dst |-> dst, fault |-> FALSE],
           src, nodst, flags)

(***************************************************************************)
(* State.  mem is the memory (array name -> array), here the four arrays   *)
(* x, y, z, w of a caller.  call describes the last call made (op is       *)
(* "none" before any call): its destinations d and e, its sources a and b  *)
(* and its count or control n.  ret is what the last call returned, for    *)
(* the calls that return a value.  fault is TRUE when the last call        *)
(* accessed a word outside its operands: the process is gone.  plan is     *)
(* what the caller still does: left calls, their operands drawn from rots  *)
(* (destination, first source, second source), their shift counts from     *)
(* counts, none of them an operation of skip, under the build and         *)
(* allocator env.  buf is the byte buffer of the caller, which the        *)
(* encoders write and the decoders read; heap is the calls of malloc and   *)
(* free made so far.  b64 is the text the caller has decoded from Base64   *)
(* or is about to: the characters src, the flags, the destination dst (a   *)
(* buffer of dst_len bytes; nodst when NULL) and err as the call set it.   *)
(***************************************************************************)
VARIABLES mem, call, ret, fault, plan, buf, heap, b64

vars == <<mem, call, ret, fault, plan, buf, heap, b64>>

Regs == {"x", "y", "z", "w"}
NoText == [src |-> <<>>, flags |-> 0, dst |-> <<>>, nodst |-> TRUE, err |-> {}]
NoCall == [op |-> "none", n |-> 0, d |-> NULL, e |-> NULL, a |-> NULL, b |-> NULL]
Called(op, n, d, e, a, b) == [op |-> op, n |-> n, d |-> d, e |-> e, a |-> a, b |-> b]

\* The default build: the stack budget of inner.h, malloc enabled and succeeding.
DefaultEnv ==
  [buf |-> CTTK_MAX_INT_BUF, nomalloc |-> FALSE, ok |-> <<TRUE, TRUE, TRUE>>,
   junk |-> InitArr(1)]

Sizes == 1..MaxSize
Values(size) == MinValue(size)..MaxValue(size)
AllCounts == 0..(WordMod - 1)
\* One call, into z from x and y.
OneCall == [left |-> 1, rots |-> {<<"z", "x", "y">>}, counts |-> AllCounts,
            env |-> DefaultEnv, skip |-> {}]

\* A call that gives memory m1 and the fault f.
Step(c, m1, f) ==
  /\ plan.left > 0
  /\ c.op \notin plan.skip
  /\ ~fault
  /\ mem' = m1
  /\ fault' = f
  /\ call' = c
  /\ plan' = [plan EXCEPT !.left = @ - 1]
  /\ heap' = heap \o malloc_log(mem, c, plan.env)
  /\ UNCHANGED <<ret, buf, b64>>

Ternary(op, t, m1) == Step(Called(op, 0, t[1], NULL, t[2], t[3]), m1, FALSE)
Binary(op, t, m1) == Step(Called(op, 0, t[1], NULL, t[2], t[2]), m1, FALSE)
Shift(op, t, n, p) == Step(Called(op, n, t[1], NULL, t[2], t[2]), p.m, p.fault)
NoFault(m1) == [m |-> m1, fault |-> FALSE]

Add == \E t \in plan.rots : Ternary("add", t, cttk_i31_add(mem, t[1], t[2], t[3]))
AddTrunc ==
  \E t \in plan.rots : Ternary("add_trunc", t, cttk_i31_add_trunc(mem, t[1], t[2], t[3]))
Sub == \E t \in plan.rots : Ternary("sub", t, cttk_i31_sub(mem, t[1], t[2], t[3]))
SubTrunc ==
  \E t \in plan.rots : Ternary("sub_trunc", t, cttk_i31_sub_trunc(mem, t[1], t[2], t[3]))
Neg == \E t \in plan.rots : Binary("neg", t, cttk_i31_neg(mem, t[1], t[2]))
NegTrunc == \E t \in plan.rots : Binary("neg_trunc", t, cttk_i31_neg_trunc(mem, t[1], t[2]))
Mul ==
  \E t \in plan.rots : Ternary("mul", t, cttk_i31_mul(mem, t[1], t[2], t[3], plan.env))
MulTrunc ==
  \E t \in plan.rots :
    Ternary("mul_trunc", t, cttk_i31_mul_trunc(mem, t[1], t[2], t[3], plan.env))
Lsh ==
  \E t \in plan.rots, n \in plan.counts :
    Shift("lsh", t, n, NoFault(cttk_i31_lsh(mem, t[1], t[2], n)))
LshProt ==
  \E t \in plan.rots, n \in plan.counts :
    Shift("lsh_prot", t, n, NoFault(cttk_i31_lsh_prot(mem, t[1], t[2], n)))
LshTrunc ==
  \E t \in plan.rots, n \in plan.counts :
    Shift("lsh_trunc", t, n, NoFault(cttk_i31_lsh_trunc(mem, t[1], t[2], n)))
LshTruncProt ==
  \E t \in plan.rots, n \in plan.counts :
    Shift("lsh_trunc_prot", t, n, NoFault(cttk_i31_lsh_trunc_prot(mem, t[1], t[2], n)))
Rsh ==
  \E t \in plan.rots, n \in plan.counts :
    Shift("rsh", t, n, cttk_i31_rsh(mem, t[1], t[2], n))
RshProt ==
  \E t \in plan.rots, n \in plan.counts :
    Shift("rsh_prot", t, n, cttk_i31_rsh_prot(mem, t[1], t[2], n))
And == \E t \in plan.rots : Ternary("and", t, cttk_i31_and(mem, t[1], t[2], t[3]))
Or == \E t \in plan.rots : Ternary("or", t, cttk_i31_or(mem, t[1], t[2], t[3]))
Xor == \E t \in plan.rots : Ternary("xor", t, cttk_i31_xor(mem, t[1], t[2], t[3]))
Eqv == \E t \in plan.rots : Ternary("eqv", t, cttk_i31_eqv(mem, t[1], t[2], t[3]))
Not == \E t \in plan.rots : Binary("not", t, cttk_i31_not(mem, t[1], t[2]))
Set == \E t \in plan.rots : Binary("set", t, cttk_i31_set(mem, t[1], t[2]))
SetTrunc == \E t \in plan.rots : Binary("set_trunc", t, cttk_i31_set_trunc(mem, t[1], t[2]))
Copy == \E t \in plan.rots : Binary("copy", t, cttk_i31_copy(mem, t[1], t[2]))
Swap ==
  \E t \in plan.rots :
    Step(Called("swap", 0, t[1], t[2], t[1], t[2]), cttk_i31_swap(mem, t[1], t[2]), FALSE)
Mux ==
  \E t \in plan.rots, ctl \in {0, 1} :
    Step(Called("mux", ctl, t[1], NULL, t[2], t[3]),
         cttk_i31_mux(mem, ctl, t[1], t[2], t[3]), FALSE)
\* The quotient and the remainder (into w), the quotient alone, the
\* remainder alone.
Divrem ==
  \E t \in plan.rots :
    \E q \in {t[1], NULL}, r \in {"w", t[1], NULL} :
      /\ q # r
      /\ Step(Called("divrem", 0, q, r, t[2], t[3]),
              cttk_i31_divrem(mem, q, r, t[2], t[3], plan.env),
              divrem_overrun(mem, q, r, t[2], t[3], plan.env))
Mod ==
  \E t \in plan.rots :
    Step(Called("mod", 0, t[1], NULL, t[2], t[3]),
         cttk_i31_mod(mem, t[1], t[2], t[3], plan.env),
         mod_overrun(mem, t[1], t[2], t[3], plan.env))

\* A test of x, or of x against y: nothing is written.
Returned(op, r) ==
  /\ plan.left > 0
  /\ call' = Called(op, 0, NULL, NULL, "x", "y")
  /\ ret' = r
  /\ plan' = [plan EXCEPT !.left = @ - 1]
  /\ UNCHANGED <<mem, fault, buf, heap, b64>>

Eq0 == Returned("eq0", cttk_i31_eq0(mem, "x"))
Neq0 == Returned("neq0", cttk_i31_neq0(mem, "x"))
Gt0 == Returned("gt0", cttk_i31_gt0(mem, "x"))
Lt0 == Returned("lt0", cttk_i31_lt0(mem, "x"))
Geq0 == Returned("geq0", cttk_i31_geq0(mem, "x"))
Leq0 == Returned("leq0", cttk_i31_leq0(mem, "x"))
Eq == Returned("eq", cttk_i31_eq(mem, "x", "y"))
Neq == Returned("neq", cttk_i31_neq(mem, "x", "y"))
Lt == Returned("lt", cttk_i31_lt(mem, "x", "y"))
Leq == Returned("leq", cttk_i31_leq(mem, "x", "y"))
Gt == Returned("gt", cttk_i31_gt(mem, "x", "y"))
Geq == Returned("geq", cttk_i31_geq(mem, "x", "y"))
Sign == Returned("sign", cttk_i31_sign(mem, "x"))
Cmp == Returned("cmp", cttk_i31_cmp(mem, "x", "y"))

\* The memory where x and y are ax and ay, z and w as cttk_i31_init leaves
\* them with the size sz.
Memory(ax, ay, sz) ==
  Stored([p \in Regs |-> IF p = "x" THEN ax ELSE IF p = "y" THEN ay ELSE InitArr(sz)])

\* The start with the byte buffer b.
StartWith(m, p, b) ==
  /\ mem = m
  /\ call = NoCall
  /\ ret = 0
  /\ fault = FALSE
  /\ plan = p
  /\ buf = b
  /\ heap = <<>>
  /\ b64 = NoText

Start(m, p) == StartWith(m, p, <<>>)

(***************************************************************************)
(* One arithmetic call on two values x, y of one size.                     *)
(***************************************************************************)
InitArith ==
  \E size \in Sizes : \E vx \in Values(size), vy \in Values(size) :
    Start(Memory(FromInt(size, vx), FromInt(size, vy), size), OneCall)

NextArith == Add \/ AddTrunc \/ Sub \/ SubTrunc \/ Neg \/ NegTrunc \/ Mul \/ MulTrunc

SpecArith == InitArith /\ [][NextArith]_vars

(***************************************************************************)
(* One shift of x, a value or a NaN, by any count.                         *)
(***************************************************************************)
\* A NaN array keeps value words: here those of any value of its size.
OperandsOf(size) ==
  { [FromInt(size, val) EXCEPT !.nan = nan] : val \in Values(size), nan \in {0, 1} }

InitShift ==
  \E size \in Sizes : \E ax \in OperandsOf(size) :
    Start(Memory(ax, InitArr(size), size), OneCall)

NextShift == Lsh \/ LshProt \/ LshTrunc \/ LshTruncProt \/ Rsh \/ RshProt

SpecShift == InitShift /\ [][NextShift]_vars

(***************************************************************************)
(* One division of two values x, y of one size.                            *)
(***************************************************************************)
InitDiv == InitArith

NextDiv == Divrem \/ Mod

SpecDiv == InitDiv /\ [][NextDiv]_vars

(***************************************************************************)
(* One comparison of x and y of any two sizes, each NaN or not.  A NaN     *)
(* array keeps limbs: here those of any value of its size.                 *)
(***************************************************************************)
InitCmp ==
  \E sx \in Sizes, sy \in Sizes :
    \E ax \in OperandsOf(sx), ay \in OperandsOf(sy) :
      Start(Memory(ax, ay, 1), OneCall)

NextCmp ==
  \/ Eq0 \/ Neq0 \/ Gt0 \/ Lt0 \/ Geq0 \/ Leq0
  \/ Eq \/ Neq \/ Lt \/ Leq \/ Gt \/ Geq
  \/ Sign \/ Cmp

SpecCmp == InitCmp /\ [][NextCmp]_vars

(***************************************************************************)
(* Sequences of calls on x, y, z of any sizes, each array in turn the      *)
(* destination.  x and y start as a value or as cttk_i31_init leaves them. *)
(***************************************************************************)

SeqSizes == 1..MaxSeqSize
Rot == {<<"z", "x", "y">>, <<"x", "y", "z">>, <<"y", "z", "x">>}
SeqCounts == {0, 1, LimbBits + 1, WordMod - 1}
Starts(size) == {InitArr(size)} \cup {FromInt(size, val) : val \in Values(size)}

InitSeq ==
  \E sx \in SeqSizes, sy \in SeqSizes, sz \in SeqSizes :
    \E ax \in Starts(sx), ay \in Starts(sy) :
      Start(Memory(ax, ay, sz),
            [left |-> MaxSteps, rots |-> Rot, counts |-> SeqCounts, env |-> DefaultEnv,
             skip |-> {}])

NextSeq ==
  \/ Add \/ AddTrunc \/ Sub \/ SubTrunc \/ Neg \/ NegTrunc \/ Mul \/ MulTrunc
  \/ Lsh \/ LshProt \/ LshTrunc \/ LshTruncProt \/ Rsh \/ RshProt
  \/ And \/ Or \/ Xor \/ Eqv \/ Not
  \/ Set \/ SetTrunc \/ Copy \/ Swap \/ Mux
  \/ Divrem \/ Mod

SpecSeq == InitSeq /\ [][NextSeq]_vars


(***************************************************************************)
(* Encoding and decoding through the byte buffer of the caller: x is       *)
(* encoded into the first len bytes of buf, the first len bytes of buf are *)
(* decoded into z.  Either x is a value or a NaN of any size, z has the    *)
(* size of x, the buffer is untouched and two calls are made (an encoding  *)
(* and the decoding of its bytes among them); or one call is made on a     *)
(* buffer of any bytes, with z of any size.                                *)
(***************************************************************************)
\* One byte more than the largest size takes.
MaxBytes == (MaxSize + ByteBits - 1) \div ByteBits + 1
Untouched(n) == [i \in 1..n |-> ByteMask]

Enc(op, be) ==
  \E len \in 0..Len(buf) :
    /\ plan.left > 0
    /\ ~fault
    /\ buf' = genenc(buf, len, mem["x"], be)
    /\ call' = Called(op, len, NULL, NULL, "x", "x")
    /\ plan' = [plan EXCEPT !.left = @ - 1]
    /\ UNCHANGED <<mem, ret, fault, heap, b64>>

Encbe == Enc("encbe", 1)
Encle == Enc("encle", 0)

Dec(op, be, sig, trunc) ==
  \E len \in 0..Len(buf) :
    Step(Called(op, len, "z", NULL, NULL, NULL),
         gendec(mem, "z", SubSeq(buf, 1, len), be, sig, trunc), FALSE)

DecbeSigned == Dec("decbe_signed", 1, 1, 0)
DecbeUnsigned == Dec("decbe_unsigned", 1, 0, 0)
DecbeSignedTrunc == Dec("decbe_signed_trunc", 1, 1, 1)
DecbeUnsignedTrunc == Dec("decbe_unsigned_trunc", 1, 0, 1)
DecleSigned == Dec("decle_signed", 0, 1, 0)
DecleUnsigned == Dec("decle_unsigned", 0, 0, 0)
DecleSignedTrunc == Dec("decle_signed_trunc", 0, 1, 1)
DecleUnsignedTrunc == Dec("decle_unsigned_trunc", 0, 0, 1)

InitCodec ==
  \/ \E size \in Sizes : \E ax \in OperandsOf(size) :
       StartWith(Memory(ax, InitArr(size), size), [OneCall EXCEPT !.left = 2],
                 Untouched(MaxBytes))
  \/ \E size \in Sizes, n \in 0..MaxBytes : \E s \in [1..n -> Bytes] :
       StartWith(Memory(InitArr(size), InitArr(size), size), OneCall,
                 s \o Untouched(MaxBytes - n))

NextCodec ==
  \/ Encbe \/ Encle
  \/ DecbeSigned \/ DecbeUnsigned \/ DecbeSignedTrunc \/ DecbeUnsignedTrunc
  \/ DecleSigned \/ DecleUnsigned \/ DecleSignedTrunc \/ DecleUnsignedTrunc

SpecCodec == InitCodec /\ [][NextCodec]_vars

(***************************************************************************)
(* Conversion of x from and to the integers of C.  Either the caller sets  *)
(* x, of any size below, at and above 32 and 64 bits and holding zeros or  *)
(* ones, to any value of the C type, and reads it back; or it reads an x   *)
(* that is any value or a NaN.  plan.sets is the number of calls of a      *)
(* setter the caller still makes.                                          *)
(***************************************************************************)
ScalarSizes == 1..(DWordBits + 2)
Words == 0..(WordMod - 1)
DWords == 0..(DWordMod - 1)
ScalarPlan(left, sets) ==
  [left |-> left, sets |-> sets, rots |-> {}, counts |-> {}, env |-> DefaultEnv,
   skip |-> {}]

SetScalar(op, v, m1) ==
  /\ plan.left > 0
  /\ plan.sets > 0
  /\ mem' = m1
  /\ call' = Called(op, v, "x", NULL, NULL, NULL)
  /\ plan' = [plan EXCEPT !.left = @ - 1, !.sets = @ - 1]
  /\ UNCHANGED <<ret, fault, buf, heap, b64>>

SetU32 == \E v \in Words : SetScalar("set_u32", v, cttk_i31_set_u32(mem, "x", v))
SetS32 == \E v \in Words : SetScalar("set_s32", v, cttk_i31_set_s32(mem, "x", v))
SetU64 == \E v \in DWords : SetScalar("set_u64", v, cttk_i31_set_u64(mem, "x", v))
SetS64 == \E v \in DWords : SetScalar("set_s64", v, cttk_i31_set_s64(mem, "x", v))

ToU32 == Returned("to_u32", cttk_i31_to_u32(mem, "x"))
ToS32 == Returned("to_s32", cttk_i31_to_s32(mem, "x"))
ToU64 == Returned("to_u64", cttk_i31_to_u64(mem, "x"))
ToS64 == Returned("to_s64", cttk_i31_to_s64(mem, "x"))

InitScalar ==
  \/ \E size \in ScalarSizes : \E ax \in {InitArr(size), FromInt(size, -1)} :
       Start(Memory(ax, InitArr(1), 1), ScalarPlan(2, 1))
  \/ \E size \in ScalarSizes : \E ax \in OperandsOf(size) :
       Start(Memory(ax, InitArr(1), 1), ScalarPlan(1, 0))

NextScalar == SetU32 \/ SetS32 \/ SetU64 \/ SetS64 \/ ToU32 \/ ToS32 \/ ToU64 \/ ToS64

SpecScalar == InitScalar /\ [][NextScalar]_vars

(***************************************************************************)
(* One conversion into z, of any size and holding a NaN or a value, from   *)
(* x, any value or a NaN of any size, the sizes taking one to three words. *)
(***************************************************************************)
SetSizes == 1..(2 * LimbBits + 1)

InitSet ==
  \E sd \in SetSizes, sa \in SetSizes :
    \E ax \in OperandsOf(sa), az \in {InitArr(sd), FromInt(sd, -1)} :
      Start([Memory(ax, InitArr(1), sd) EXCEPT !["z"] = az], OneCall)

NextSet == Set \/ SetTrunc

SpecSet == InitSet /\ [][NextSet]_vars

(***************************************************************************)
(* One call whose destination is one of its sources, x and y being values  *)
(* or NaNs of one size and z, w two other arrays of that size: either an   *)
(* operation on x and y, or an operation on x alone, shifts by any count   *)
(* among them.                                                             *)
(***************************************************************************)
Aliased == {<<"x", "x", "y">>, <<"y", "x", "y">>, <<"x", "x", "x">>, <<"z", "x", "x">>}

\* A division of t[2] by t[3] with a recipient that is one of them.
DivremInPlace ==
  \E t \in plan.rots :
    \E q \in {t[2], t[3], "w", NULL}, r \in {t[2], t[3], "w", NULL} :
      /\ q # r
      /\ {q, r} \cap {t[2], t[3]} # {}
      /\ Step(Called("divrem", 0, q, r, t[2], t[3]),
              cttk_i31_divrem(mem, q, r, t[2], t[3], plan.env),
              divrem_overrun(mem, q, r, t[2], t[3], plan.env))

\* The sizes of one word and of two words, and their operands: every value,
\* and NaN arrays over the words of the extreme values and of zero.
AliasSizes == {1, LimbBits + 1}

AliasOperands(size) ==
  { FromInt(size, val) : val \in Values(size) }
    \cup { [FromInt(size, val) EXCEPT !.nan = 1] :
              val \in {MinValue(size), 0, MaxValue(size)} }

InitAlias ==
  \/ \E size \in AliasSizes :
       \E ax \in AliasOperands(size), ay \in AliasOperands(size) :
         Start(Memory(ax, ay, size),
               [OneCall EXCEPT !.rots = Aliased, !.counts = {}])
  \/ \E size \in AliasSizes : \E ax \in OperandsOf(size) :
       Start(Memory(ax, InitArr(size), size),
             [OneCall EXCEPT !.rots = {<<"x", "x", "y">>}])

NextAlias ==
  \/ Add \/ Sub \/ Neg \/ Mul \/ MulTrunc
  \/ Lsh \/ LshProt \/ LshTrunc \/ LshTruncProt \/ Rsh \/ RshProt
  \/ And \/ Or \/ Xor \/ Eqv \/ Not
  \/ DivremInPlace \/ Mod

SpecAlias == InitAlias /\ [][NextAlias]_vars

(***************************************************************************)
(* One multiplication or division on operands around the stack budget,    *)
(* under every outcome of the allocator.                                   *)
(***************************************************************************)
\* Stack budgets a build may set: the least one config.h allows, and one
\* half larger.
MinBudget == 64
Budgets == {MinBudget, MinBudget + MinBudget \div 2}

\* Operands of k value words, the top one holding the sign bit alone: with
\* the header they take 3, 6 and 9 words, around the budgets of a division,
\* and 18 words, around those of a multiplication.
DivLimbs == {2, 5, 8}
MulLimbs == MinBudget \div SizeofWord + 1
ScratchSize(k) == LimbBits * (k - 1) + 1

\* 0, -1, MinValue, and a positive and a negative value of mixed words (pos is
\* for the larger operands and the blocks of the heap).
Pattern(size, p) ==
  LET h == Header(size)
      len == WordLen(h)
  IN [h |-> h, nan |-> 0,
      v |-> Stored([i \in 1..len |->
              CASE p = "zero" -> 0
                [] p = "mone" -> LimbMask
                [] p = "min" -> IF i = len THEN LimbMask ELSE 0
                [] p = "pos" -> IF i = len THEN 0 ELSE (3 * i + 2) % LimbMod
                [] p = "neg" -> IF i = len THEN LimbMask ELSE (5 * i + 1) % LimbMod])]

Patterns == {"zero", "mone", "min", "neg"}
ScratchOperands(size) == { Pattern(size, p) : p \in Patterns }

\* What a block of malloc may hold: an array of another size, or words under
\* the header of the operands, with the NaN flag or without.
ScratchJunk(size) ==
  {InitArr(1), Pattern(size, "pos"), [Pattern(size, "mone") EXCEPT !.nan = 1]}

\* The builds and allocators: no heap; a heap where some allocations fail; a
\* heap where all succeed, over the contents of the blocks.
ScratchEnvs(size, oks) ==
  { [buf |-> b, nomalloc |-> TRUE, ok |-> <<TRUE, TRUE, TRUE>>, junk |-> InitArr(1)] :
      b \in Budgets }
  \cup { [buf |-> b, nomalloc |-> FALSE, ok |-> ok, junk |-> InitArr(1)] :
           b \in Budgets, ok \in oks }
  \cup { [buf |-> b, nomalloc |-> FALSE, ok |-> <<TRUE, TRUE, TRUE>>, junk |-> j] :
           b \in Budgets, j \in ScratchJunk(size) }

AllOks == { <<o1, o2, o3>> : o1 \in BOOLEAN, o2 \in BOOLEAN, o3 \in BOOLEAN }

InPlace == {<<"z", "x", "y">>, <<"x", "x", "y">>}

ScratchStart(size, ops, envs, skip) ==
  \E ax \in ops, ay \in ops, env \in envs :
    Start(Memory(ax, ay, size),
          [OneCall EXCEPT !.rots = InPlace, !.counts = {}, !.env = env, !.skip = skip])

InitScratch ==
  \/ \E k \in DivLimbs :
       ScratchStart(ScratchSize(k), ScratchOperands(ScratchSize(k)),
                    ScratchEnvs(ScratchSize(k), AllOks), {})
  \/ ScratchStart(ScratchSize(MulLimbs),
                  {Pattern(ScratchSize(MulLimbs), "mone"),
                   Pattern(ScratchSize(MulLimbs), "pos")},
                  ScratchEnvs(ScratchSize(MulLimbs), {<<FALSE, TRUE, TRUE>>}),
                  {"divrem", "mod"})

NextScratch == Mul \/ MulTrunc \/ Divrem \/ Mod

SpecScratch == InitScratch /\ [][NextScratch]_vars

(***************************************************************************)
(* One call watched by an observer of addresses and branches: a shift, an  *)
(* addition or a subtraction of x, any value or NaN of its size, with y    *)
(* into z, of that size or of the next one; or a decoding into z of any    *)
(* bytes of the buffer.                                                    *)
(***************************************************************************)
WatchedOperands(size) ==
  {FromInt(size, MinValue(size)), [FromInt(size, MaxValue(size)) EXCEPT !.nan = 1]}

InitTrace ==
  \/ \E size \in Sizes, sz \in Sizes : \E ax \in OperandsOf(size), ay \in WatchedOperands(size) :
       /\ sz \in {size, (size % MaxSize) + 1}
       /\ Start(Memory(ax, ay, sz), OneCall)
  \/ \E size \in Sizes, n \in 0..MaxBytes : \E s \in [1..n -> Bytes] :
       StartWith(Memory(InitArr(size), InitArr(size), size), [OneCall EXCEPT !.counts = {0}], s)

NextTrace ==
  \/ Lsh \/ LshProt \/ LshTrunc \/ LshTruncProt \/ Rsh \/ RshProt
  \/ Add \/ AddTrunc \/ Sub \/ SubTrunc
  \/ DecbeSigned \/ DecbeUnsigned \/ DecbeSignedTrunc \/ DecbeUnsignedTrunc
  \/ DecleSigned \/ DecleUnsigned \/ DecleSignedTrunc \/ DecleUnsignedTrunc

SpecTrace == InitTrace /\ [][NextTrace]_vars

(***************************************************************************)
(* One conditional call on x and y of one size, x any value or NaN, y a    *)
(* value or a NaN: mux into z or into one of its sources, cond_copy and    *)
(* cond_swap in both directions or of x with itself.                       *)
(***************************************************************************)
CondCopy ==
  \E t \in plan.rots, ctl \in {0, 1} :
    Step(Called("cond_copy", ctl, t[1], NULL, t[2], t[2]),
         cttk_i31_cond_copy(mem, ctl, t[1], t[2]), FALSE)
CondSwap ==
  \E t \in plan.rots, ctl \in {0, 1} :
    Step(Called("cond_swap", ctl, t[1], t[2], t[1], t[2]),
         cttk_i31_cond_swap(mem, ctl, t[1], t[2]), FALSE)

MuxRots ==
  {<<"z", "x", "y">>, <<"z", "y", "x">>, <<"x", "x", "y">>, <<"x", "y", "x">>,
   <<"y", "x", "y">>, <<"x", "x", "x">>, <<"x", "y", "y">>}
MuxOperands(size) ==
  {FromInt(size, MinValue(size)), FromInt(size, 0), FromInt(size, MaxValue(size)),
   [FromInt(size, MaxValue(size)) EXCEPT !.nan = 1], InitArr(size)}

InitMux ==
  \E size \in Sizes : \E ax \in OperandsOf(size), ay \in MuxOperands(size) :
    Start(Memory(ax, ay, size), [OneCall EXCEPT !.rots = MuxRots])

NextMux == Mux \/ CondCopy \/ CondSwap

SpecMux == InitMux /\ [][NextMux]_vars

(***************************************************************************)
(* Two calls among add, add_trunc, sub and sub_trunc on two values x, y of *)
(* one size: into z from x and y, and into w from z and y.                 *)
(***************************************************************************)
ThereAndBack == {<<"z", "x", "y">>, <<"w", "z", "y">>}

InitThereAndBack ==
  \E size \in Sizes : \E vx \in Values(size), vy \in Values(size) :
    Start(Memory(FromInt(size, vx), FromInt(size, vy), size),
          [OneCall EXCEPT !.left = 2, !.rots = ThereAndBack])

NextThereAndBack == Add \/ AddTrunc \/ Sub \/ SubTrunc

SpecThereAndBack == InitThereAndBack /\ [][NextThereAndBack]_vars

(***************************************************************************)
(* One call of cttk_b64tobin_gen on a text of up to MaxChars characters    *)
(* among 'A', 'R', '=', space and '*', with or without a destination, of   *)
(* several lengths, under each combination of flags.                       *)
(***************************************************************************)
MaxChars == 5
Chars == {65, 82, 61, 32, 42}
Zeros(n) == [i \in 1..n |-> 0]
\* The flags, the destination and whether it is NULL.
Callers ==
  {<<0, <<>>, TRUE>>, <<0, Zeros(0), FALSE>>, <<0, Zeros(1), FALSE>>, <<0, Zeros(2), FALSE>>,
   <<0, Zeros(MaxChars), FALSE>>,
   <<CTTK_B64DEC_NO_WS, <<>>, TRUE>>, <<CTTK_B64DEC_NO_WS, Zeros(1), FALSE>>,
   <<CTTK_B64DEC_NO_PAD, <<>>, TRUE>>,
   <<CTTK_B64DEC_NO_PAD + CTTK_B64DEC_NO_WS, Zeros(MaxChars), FALSE>>}

B64ToBin ==
  /\ plan.left > 0
  /\ ~fault
  /\ \E r \in {cttk_b64tobin_gen(b64.dst, b64.nodst, b64.src, b64.flags)} :
       /\ ret' = r.count
       /\ b64' = [b64 EXCEPT !.dst = r.dst, !.err = r.err]
       /\ fault' = r.fault
  /\ call' = Called("b64tobin_gen", b64.flags, NULL, NULL, NULL, NULL)
  /\ plan' = [plan EXCEPT !.left = @ - 1]
  /\ UNCHANGED <<mem, buf, heap>>

InitB64 ==
  \E n \in 0..MaxChars : \E s \in [1..n -> Chars] : \E c \in Callers :
    /\ mem = Memory(InitArr(1), InitArr(1), 1)
    /\ call = NoCall
    /\ ret = 0
    /\ fault = FALSE
    /\ plan = OneCall
    /\ buf = <<>>
    /\ heap = <<>>
    /\ b64 = [src |-> s, flags |-> c[1], dst |-> c[2], nodst |-> c[3], err |-> {}]

NextB64 == B64ToBin

SpecB64 == InitB64 /\ [][NextB64]_vars

(***************************************************************************)
(* Two calls in a row on arrays of one and of two value words, each as     *)
(* cttk_i31_init leaves it or holding -1 or an end of its range; the three *)
(* arrays have two words, or x, or x and y, have one (the calls take their *)
(* operands in the three rotations of z, x, y).                            *)
(***************************************************************************)
Narrow == LimbBits - 1
Wide == LimbBits + 1
LayoutSizes == {<<Wide, Wide, Wide>>, <<Narrow, Wide, Wide>>, <<Narrow, Narrow, Wide>>}
LayoutStarts(size) ==
  {InitArr(size)} \cup {FromInt(size, val) : val \in {MinValue(size), -1, MaxValue(size)}}

InitLayout ==
  \E t \in LayoutSizes : \E ax \in LayoutStarts(t[1]), ay \in LayoutStarts(t[2]) :
    Start(Memory(ax, ay, t[3]),
          [left |-> 2, rots |-> Rot, counts |-> SeqCounts, env |-> DefaultEnv, skip |-> {}])

NextLayout == NextSeq \/ CondCopy \/ CondSwap

SpecLayout == InitLayout /\ [][NextLayout]_vars

(***************************************************************************)
(* Calls that may not change a size, on arrays of one and of two value     *)
(* words, of equal or of different sizes, fresh or holding the least       *)
(* value: two calls in a row with the destination apart from the sources,  *)
(* or one call with the destination among the sources; and one             *)
(* multiplication or division on operands larger than the least stack      *)
(* budget, without a heap or with a heap where allocations fail.           *)
(***************************************************************************)
WidthStarts(size) == {InitArr(size), FromInt(size, MinValue(size))}
WidthLimbs == MinBudget \div (2 * SizeofWord)
WidthEnvs ==
  { [buf |-> MinBudget, nomalloc |-> TRUE, ok |-> <<TRUE, TRUE, TRUE>>, junk |-> InitArr(1)] }
  \cup { [buf |-> MinBudget, nomalloc |-> FALSE, ok |-> ok, junk |-> InitArr(1)] :
           ok \in AllOks }

InitWidth ==
  \/ \E t \in LayoutSizes : \E ax \in WidthStarts(t[1]), ay \in WidthStarts(t[2]) :
       \E p \in {[left |-> 2, rots |-> Rot], [left |-> 1, rots |-> Aliased]} :
         Start(Memory(ax, ay, t[3]),
               [left |-> p.left, rots |-> p.rots, counts |-> SeqCounts, env |-> DefaultEnv,
                skip |-> {}])
  \/ ScratchStart(ScratchSize(WidthLimbs),
                  {Pattern(ScratchSize(WidthLimbs), "min"),
                   Pattern(ScratchSize(WidthLimbs), "neg")},
                  WidthEnvs, {})

NextWidth == NextLayout \/ DivremInPlace

SpecWidth == InitWidth /\ [][NextWidth]_vars
(***************************************************************************)
(* Properties.  In the one-call specifications the destination is distinct *)
(* from the sources, so that after the call mem still holds the sources.   *)
(***************************************************************************)
\* The arrays a call names, its destinations, and whether they all have one
\* size.
Named(c) == {c.d, c.e, c.a, c.b} \ {NULL}
Dests(c) == {c.d, c.e} \ {NULL}
EqualSizes(m, c) == \A p1 \in Named(c), p2 \in Named(c) : m[p1].h = m[p2].h
\* The last call had non-NaN sources of the size of its destinations.
OnValues ==
  /\ call.op # "none"
  /\ EqualSizes(mem, call)
  /\ mem[call.a].nan = 0 /\ mem[call.b].nan = 0
\* The values of the sources of the last call.
ValA == ToInt(mem[call.a])
ValB == ToInt(mem[call.b])

\* d is the checked result of the exact value e: e when in range, else NaN.
IsChecked(d, e) ==
  IF InRange(e, SizeOf(d)) THEN d.nan = 0 /\ ToInt(d) = e ELSE d.nan = 1

\* e reduced modulo 2^size into the range of the size.
Wrap(e, size) ==
  LET u == e % (2 ^ size)
  IN IF u >= 2 ^ (size - 1) THEN u - 2 ^ size ELSE u

Abs(e) == IF e < 0 THEN -e ELSE e
\* 2^n for a shift count n; beyond the bits of every size explored a larger
\* count changes no result (a * 2^n stays out of range or 0, a \div 2^n stays
\* 0 or -1), so the exponent stops there.
TwoTo(n) == 2 ^ (IF n > 2 * MaxSize THEN 2 * MaxSize ELSE n)

\* Quotient and remainder of the division truncating toward zero.
TruncQuot(x, y) ==
  IF (x < 0) = (y < 0) THEN Abs(x) \div Abs(y) ELSE -(Abs(x) \div Abs(y))
TruncRem(x, y) == x - y * TruncQuot(x, y)

\* C1: for b # 0, other than MinValue / -1, divrem gives non-NaN q and r with
\* a = q * b + r, |r| < |b| and r zero or of the sign of a; a call that asks
\* for q alone or for r alone gets the same value.
C1_Divrem ==
  (/\ call.op = "divrem" /\ OnValues
   /\ ValB # 0
   /\ ~(ValA = MinValue(SizeOf(mem[call.a])) /\ ValB = -1)) =>
     /\ call.d # NULL =>
          mem[call.d].nan = 0 /\ ToInt(mem[call.d]) = TruncQuot(ValA, ValB)
     /\ call.e # NULL =>
          /\ mem[call.e].nan = 0
          /\ ToInt(mem[call.e]) = TruncRem(ValA, ValB)
          /\ Abs(ToInt(mem[call.e])) < Abs(ValB)
          /\ ToInt(mem[call.e]) = 0 \/ (ToInt(mem[call.e]) < 0) = (ValA < 0)
     /\ (call.d # NULL /\ call.e # NULL) =>
          ValA = ToInt(mem[call.d]) * ValB + ToInt(mem[call.e])

\* A negative two-limb dividend with a positive divisor and a non-zero
\* remainder, q and r both asked for.
C1_Witness ==
  /\ call.op = "divrem" /\ OnValues
  /\ call.d # NULL /\ call.e # NULL
  /\ WordLen(mem[call.a].h) >= 2
  /\ ValA < 0 /\ ValB > 1
  /\ mem[call.d].nan = 0 /\ mem[call.e].nan = 0
  /\ ToInt(mem[call.d]) < 0 /\ ToInt(mem[call.e]) < 0

\* C2: MinValue / -1 gives q NaN and r the non-NaN value 0; a / 0 gives
\* q NaN and r NaN.
C2_Degenerate ==
  (call.op = "divrem" /\ OnValues) =>
    /\ (ValA = MinValue(SizeOf(mem[call.a])) /\ ValB = -1) =>
         /\ call.d # NULL => mem[call.d].nan = 1
         /\ call.e # NULL => mem[call.e].nan = 0 /\ ToInt(mem[call.e]) = 0
    /\ ValB = 0 => \A p \in Dests(call) : mem[p].nan = 1

\* MinValue / -1 on a size of two limbs or more, q and r both asked for.
C2_Witness ==
  /\ call.op = "divrem" /\ OnValues
  /\ call.d # NULL /\ call.e # NULL
  /\ WordLen(mem[call.a].h) >= 2
  /\ ValA = MinValue(SizeOf(mem[call.a])) /\ ValB = -1
  /\ mem[call.d].nan = 1 /\ mem[call.e].nan = 0

\* C3: add, sub and neg of non-NaN operands give the exact result when it is
\* in the range of the size and NaN otherwise; neg gives NaN for MinValue
\* only.
C3_AddSubNeg ==
  OnValues =>
    /\ call.op = "add" => IsChecked(mem[call.d], ValA + ValB)
    /\ call.op = "sub" => IsChecked(mem[call.d], ValA - ValB)
    /\ call.op = "neg" => /\ IsChecked(mem[call.d], -ValA)
                          /\ (mem[call.d].nan = 1 <=>
                                ValA = MinValue(SizeOf(mem[call.a])))

\* A two-limb addition of positive values that overflows, and a negation of
\* a two-limb MinValue.
C3_Witness ==
  /\ OnValues /\ WordLen(mem[call.d].h) >= 2 /\ mem[call.d].nan = 1
  /\ \/ call.op = "add" /\ ValA > 0
     \/ call.op = "neg"

\* C4: mul of non-NaN operands gives the exact product when it is in the
\* range of the size and NaN otherwise; a zero operand gives the non-NaN 0.
C4_Mul ==
  (call.op = "mul" /\ OnValues) =>
    /\ IsChecked(mem[call.d], ValA * ValB)
    /\ (ValA = 0 \/ ValB = 0) => (mem[call.d].nan = 0 /\ ToInt(mem[call.d]) = 0)

\* 0 * -1 at size 1, and MinValue * -1 on two limbs.
C4_Witness ==
  /\ call.op = "mul" /\ OnValues
  /\ \/ /\ SizeOf(mem[call.a]) = 1 /\ ValA = 0 /\ ValB = -1
        /\ mem[call.d].nan = 0
     \/ /\ WordLen(mem[call.a].h) >= 2 /\ ValA = MinValue(SizeOf(mem[call.a]))
        /\ ValB = -1 /\ mem[call.d].nan = 1

PropagatingOps ==
  {"add", "add_trunc", "sub", "sub_trunc", "neg", "neg_trunc", "mul", "mul_trunc",
   "lsh", "lsh_prot", "lsh_trunc", "lsh_trunc_prot", "rsh", "rsh_prot",
   "and", "or", "xor", "eqv", "not", "set", "set_trunc", "copy", "divrem", "mod"}

\* C5: a call of one of the listed operations on arrays of one size, with a
\* NaN source, leaves every destination NaN.
C5_NaNPropagates ==
  [][(/\ call'.op \in PropagatingOps
      /\ EqualSizes(mem, call')
      /\ mem[call'.a].nan = 1 \/ mem[call'.b].nan = 1)
     => \A p \in Dests(call') : mem'[p].nan = 1]_vars

\* The same for the listed operations other than divrem and mod.
C5_NaNPropagatesButDiv ==
  [][(/\ call'.op \in (PropagatingOps \ {"divrem", "mod"})
      /\ EqualSizes(mem, call')
      /\ mem[call'.a].nan = 1 \/ mem[call'.b].nan = 1)
     => \A p \in Dests(call') : mem'[p].nan = 1]_vars

UnaryTests == {"eq0", "neq0", "gt0", "lt0", "geq0", "leq0", "sign"}
BinaryTests == {"eq", "neq", "lt", "leq", "gt", "geq", "cmp"}
Truth(b) == IF b THEN 1 ELSE 0

\* C6: a comparison of two operands one of which is NaN, or of different
\* sizes, returns false (cmp: 0); a test of a NaN x returns false (sign: 0).
C6_NaNCompare ==
  /\ (/\ call.op \in BinaryTests
      /\ \/ mem[call.a].nan = 1 \/ mem[call.b].nan = 1
         \/ SizeOf(mem[call.a]) # SizeOf(mem[call.b])) => ret = 0
  /\ (call.op \in UnaryTests /\ mem[call.a].nan = 1) => ret = 0

\* x is NaN and holds the same size and limbs as the non-NaN y: eq is false.
C6_Witness ==
  /\ call.op = "eq" /\ ret = 0
  /\ mem[call.a].nan = 1 /\ mem[call.b].nan = 0
  /\ mem[call.a].h = mem[call.b].h /\ mem[call.a].v = mem[call.b].v
  /\ WordLen(mem[call.a].h) >= 2

\* C7: on non-NaN operands of one size the six relations return the truth of
\* the relation on the values, and cmp returns -1, 0 or 1.
C7_Compare ==
  (call.op \in BinaryTests /\ OnValues) =>
    /\ call.op = "eq" => ret = Truth(ValA = ValB)
    /\ call.op = "neq" => ret = Truth(ValA # ValB)
    /\ call.op = "lt" => ret = Truth(ValA < ValB)
    /\ call.op = "leq" => ret = Truth(ValA <= ValB)
    /\ call.op = "gt" => ret = Truth(ValA > ValB)
    /\ call.op = "geq" => ret = Truth(ValA >= ValB)
    /\ call.op = "cmp" =>
         ret = (IF ValA < ValB THEN -1 ELSE IF ValA = ValB THEN 0 ELSE 1)

\* MinValue against MaxValue on two limbs, and two values of opposite
\* signs that differ from each other only through the low limb's borrow.
C7_Witness ==
  /\ call.op \in BinaryTests /\ OnValues
  /\ WordLen(mem[call.a].h) >= 2
  /\ \/ /\ call.op = "cmp" /\ ret = -1
        /\ ValA = MinValue(SizeOf(mem[call.a]))
        /\ ValB = MaxValue(SizeOf(mem[call.b]))
     \/ /\ call.op = "lt" /\ ret = 1
        /\ ValA = -1 /\ ValB = 0

MismatchOps ==
  {"add", "sub", "neg", "mul", "mul_trunc",
   "lsh", "lsh_prot", "lsh_trunc", "lsh_trunc_prot", "rsh", "rsh_prot",
   "and", "or", "xor", "eqv", "not", "copy", "swap", "mux"}

\* C8: a call of one of the listed operations on arrays that are not all of
\* one size sets the NaN flag of its destinations and changes nothing else.
C8_MismatchFrame ==
  [][(call'.op \in MismatchOps /\ ~EqualSizes(mem, call'))
     => /\ mem' = [p \in DOMAIN mem |->
                     IF p \in Dests(call') THEN [mem[p] EXCEPT !.nan = 1] ELSE mem[p]]
        /\ ~fault']_vars

\* The same for the listed operations other than mul_trunc.
C8_MismatchFrameButMulTrunc ==
  [][(call'.op \in (MismatchOps \ {"mul_trunc"}) /\ ~EqualSizes(mem, call'))
     => /\ mem' = [p \in DOMAIN mem |->
                     IF p \in Dests(call') THEN [mem[p] EXCEPT !.nan = 1] ELSE mem[p]]
        /\ ~fault']_vars

\* C9: lsh gives a * 2^n when that is in range and NaN otherwise; lsh_trunc
\* never gives NaN and gives a * 2^n reduced modulo 2^size.
C9_Lsh ==
  OnValues =>
    /\ call.op = "lsh" => IsChecked(mem[call.d], ValA * TwoTo(call.n))
    /\ call.op = "lsh_trunc" =>
         /\ mem[call.d].nan = 0
         /\ ToInt(mem[call.d]) = Wrap(ValA * TwoTo(call.n), SizeOf(mem[call.d]))

\* A negative two-limb value shifted across a limb boundary without overflow,
\* and a truncating shift by at least the size of a non-zero value.
C9_Witness ==
  /\ OnValues
  /\ \/ /\ call.op = "lsh" /\ WordLen(mem[call.a].h) >= 2 /\ ValA < 0
        /\ call.n > LimbBits /\ mem[call.d].nan = 0
     \/ /\ call.op = "lsh_trunc" /\ call.n >= SizeOf(mem[call.a]) /\ ValA # 0
        /\ ToInt(mem[call.d]) = 0

\* C10: rsh gives floor(a / 2^n) for every count n, touching no word outside
\* d and a.
C10_Rsh ==
  (call.op = "rsh" /\ OnValues) =>
    /\ ~fault
    /\ mem[call.d].nan = 0
    /\ ToInt(mem[call.d]) = ValA \div TwoTo(call.n)

\* The same for every count but the largest one.
C10_RshBelowMax ==
  (call.op = "rsh" /\ OnValues /\ call.n < WordMod - 1) =>
    /\ ~fault
    /\ mem[call.d].nan = 0
    /\ ToInt(mem[call.d]) = ValA \div TwoTo(call.n)


\* Two results of a shift agree: the same header, and the same value words
\* unless NaN.
SameShift(p, q) == p.h = q.h /\ p.nan = q.nan /\ (p.nan = 0 => p.v = q.v)

\* C11: for every a and every count n, lsh_prot, lsh_trunc_prot and rsh_prot
\* leave in d what lsh, lsh_trunc and rsh leave there: the same NaN flag and,
\* when not NaN, the same value.  The destination is not the source, so the
\* count-leaky shift of the source still in memory is the one to compare with.
C11_ProtAgrees ==
  (call.op \in {"lsh_prot", "lsh_trunc_prot", "rsh_prot"} /\ call.d # call.a) =>
    /\ ~fault
    /\ call.op = "lsh_prot" =>
         SameShift(mem[call.d], cttk_i31_lsh(mem, call.d, call.a, call.n)[call.d])
    /\ call.op = "lsh_trunc_prot" =>
         SameShift(mem[call.d], cttk_i31_lsh_trunc(mem, call.d, call.a, call.n)[call.d])
    /\ call.op = "rsh_prot" =>
         /\ ~cttk_i31_rsh(mem, call.d, call.a, call.n).fault
         /\ SameShift(mem[call.d], cttk_i31_rsh(mem, call.d, call.a, call.n).m[call.d])

\* The same, the right shift by the largest count left out.
C11_ProtAgreesBelowMax ==
  (/\ call.op \in {"lsh_prot", "lsh_trunc_prot", "rsh_prot"}
   /\ call.d # call.a
   /\ ~(call.op = "rsh_prot" /\ call.n = WordMod - 1)) =>
    /\ ~fault
    /\ call.op = "lsh_prot" =>
         SameShift(mem[call.d], cttk_i31_lsh(mem, call.d, call.a, call.n)[call.d])
    /\ call.op = "lsh_trunc_prot" =>
         SameShift(mem[call.d], cttk_i31_lsh_trunc(mem, call.d, call.a, call.n)[call.d])
    /\ call.op = "rsh_prot" =>
         /\ ~cttk_i31_rsh(mem, call.d, call.a, call.n).fault
         /\ SameShift(mem[call.d], cttk_i31_rsh(mem, call.d, call.a, call.n).m[call.d])

\* C12: for non-NaN a and b # 0 of one size, mod leaves d non-NaN with
\* 0 <= d < |b| and d congruent to a modulo |b|; mod by 0 gives NaN.
C12_Mod ==
  (call.op = "mod" /\ OnValues) =>
    IF ValB = 0 THEN mem[call.d].nan = 1
    ELSE /\ mem[call.d].nan = 0
         /\ 0 <= ToInt(mem[call.d])
         /\ ToInt(mem[call.d]) < Abs(ValB)
         /\ (ValA - ToInt(mem[call.d])) % Abs(ValB) = 0

\* On two limbs, a negative a reduced modulo b = MinValue to a non-zero d,
\* and a = b = MinValue.
C12_Witness ==
  /\ call.op = "mod" /\ OnValues
  /\ WordLen(mem[call.a].h) >= 2
  /\ mem[call.d].nan = 0
  /\ \/ /\ ValB = MinValue(SizeOf(mem[call.b])) /\ ValA < 0 /\ ValA # ValB
        /\ ToInt(mem[call.d]) = ValA - ValB
     \/ /\ ValB = MinValue(SizeOf(mem[call.b])) /\ ValA = ValB
        /\ ToInt(mem[call.d]) = 0

\* C13 as stated: with b = MinValue, divrem gives q = 0 and r = a when
\* a # MinValue, and q = 1 and r = 0 when a = MinValue, at every size.
C13_DivByMin ==
  (/\ call.op = "divrem" /\ OnValues
   /\ ValB = MinValue(SizeOf(mem[call.b]))) =>
    /\ call.d # NULL =>
         /\ mem[call.d].nan = 0
         /\ ToInt(mem[call.d]) = (IF ValA = ValB THEN 1 ELSE 0)
    /\ call.e # NULL =>
         /\ mem[call.e].nan = 0
         /\ ToInt(mem[call.e]) = (IF ValA = ValB THEN 0 ELSE ValA)

\* C13 amended: the same at every size of two bits or more; at size 1, where
\* MinValue is -1 and 1 is not in the range, MinValue / MinValue gives q NaN
\* and r = 0.
C13_DivByMinFrom2 ==
  (/\ call.op = "divrem" /\ OnValues
   /\ ValB = MinValue(SizeOf(mem[call.b]))) =>
    /\ call.d # NULL =>
         IF SizeOf(mem[call.b]) = 1 /\ ValA = ValB
         THEN mem[call.d].nan = 1
         ELSE /\ mem[call.d].nan = 0
              /\ ToInt(mem[call.d]) = (IF ValA = ValB THEN 1 ELSE 0)
    /\ call.e # NULL =>
         /\ mem[call.e].nan = 0
         /\ ToInt(mem[call.e]) = (IF ValA = ValB THEN 0 ELSE ValA)

\* MinValue / MinValue on two limbs with q = 1 and r = 0, and a negative a
\* over MinValue with q = 0 and r = a.
C13_Witness ==
  /\ call.op = "divrem" /\ OnValues
  /\ call.d # NULL /\ call.e # NULL
  /\ WordLen(mem[call.a].h) >= 2
  /\ ValB = MinValue(SizeOf(mem[call.b]))
  /\ mem[call.d].nan = 0 /\ mem[call.e].nan = 0
  /\ \/ ValA = ValB /\ ToInt(mem[call.d]) = 1 /\ ToInt(mem[call.e]) = 0
     \/ ValA < 0 /\ ValA # ValB /\ ToInt(mem[call.d]) = 0 /\ ToInt(mem[call.e]) = ValA

\* C14: a divrem whose operands are not all of one size (a against b, or a
\* recipient against a), or one of whose sources is NaN, leaves every
\* recipient it was given NaN.
C14_DivremNaN ==
  [][(/\ call'.op = "divrem"
      /\ \/ ~EqualSizes(mem, call')
         \/ mem[call'.a].nan = 1
         \/ mem[call'.b].nan = 1)
     => \A p \in Dests(call') : mem'[p].nan = 1]_vars

\* What holds of a divrem on mismatched sizes: when a and b differ in size
\* every recipient is NaN, and a recipient of another size than a is NaN.
C14_DivremMismatch ==
  [][(call'.op = "divrem")
     => \A p \in Dests(call') :
          (mem[call'.a].h # mem[call'.b].h \/ mem[p].h # mem[call'.a].h)
            => mem'[p].nan = 1]_vars

\* d is the non-NaN array holding the exact value e reduced modulo 2^size,
\* its top word sign-extended.
IsTruncated(d, e) == d = FromInt(SizeOf(d), Wrap(e, SizeOf(d)))

\* C15: on non-NaN operands of one size add_trunc, sub_trunc, neg_trunc and
\* mul_trunc never give NaN and give the exact result reduced modulo 2^size
\* into the range, with the top word sign-extended.
C15_Trunc ==
  OnValues =>
    /\ call.op = "add_trunc" => IsTruncated(mem[call.d], ValA + ValB)
    /\ call.op = "sub_trunc" => IsTruncated(mem[call.d], ValA - ValB)
    /\ call.op = "neg_trunc" => IsTruncated(mem[call.d], -ValA)
    /\ call.op = "mul_trunc" => IsTruncated(mem[call.d], ValA * ValB)

\* add_trunc(MaxValue, 1) = MinValue on two limbs.
C15_Witness ==
  /\ OnValues /\ call.op = "add_trunc"
  /\ WordLen(mem[call.a].h) >= 2
  /\ ValA = MaxValue(SizeOf(mem[call.a])) /\ ValB = 1
  /\ mem[call.d].nan = 0
  /\ ToInt(mem[call.d]) = MinValue(SizeOf(mem[call.a]))

(***************************************************************************)
(* Bytes.                                                                  *)
(***************************************************************************)
\* The n bytes of e in two's complement, the most significant first when
\* be = 1 and last when be = 0.
TwosBytes(e, n, be) ==
  LET u == e % (ByteMod ^ n)
  IN [i \in 1..n |-> (u \div (ByteMod ^ (IF be = 1 THEN n - i ELSE i - 1))) % ByteMod]

\* The integer the n least significant bytes of src hold, unsigned.
RECURSIVE SrcSum(_, _, _)
SrcSum(src, be, n) ==
  IF n = 0 THEN 0
  ELSE (IF be = 1 THEN src[Len(src) - n + 1] ELSE src[n]) * (ByteMod ^ (n - 1))
       + SrcSum(src, be, n - 1)

\* The integer src holds, in two's complement when sig = 1.
SrcInt(src, be, sig) ==
  LET u == SrcSum(src, be, Len(src))
      top == ByteMod ^ Len(src)
  IN IF sig = 1 /\ 2 * u >= top THEN u - top ELSE u

\* Bytes that a declared size takes: ceil(size / 8).
EncodedLen(size) == (size + ByteBits - 1) \div ByteBits

\* The decoders: big-endian, signed, truncating.
DecOps ==
  [decbe_signed |-> <<1, 1, 0>>, decbe_unsigned |-> <<1, 0, 0>>,
   decbe_signed_trunc |-> <<1, 1, 1>>, decbe_unsigned_trunc |-> <<1, 0, 1>>,
   decle_signed |-> <<0, 1, 0>>, decle_unsigned |-> <<0, 0, 0>>,
   decle_signed_trunc |-> <<0, 1, 1>>, decle_unsigned_trunc |-> <<0, 0, 1>>]
EncOps == [encbe |-> 1, encle |-> 0]

\* C16: a non-NaN x of width w encoded by encbe (encle) over len >= ceil(w/8)
\* bytes and then decoded from those len bytes by decbe_signed (decle_signed)
\* into an array of width w gives a non-NaN value equal to x.
C16_RoundTrip ==
  [][(/\ \/ call.op = "encbe" /\ call'.op = "decbe_signed"
         \/ call.op = "encle" /\ call'.op = "decle_signed"
      /\ call'.n = call.n
      /\ mem["x"].nan = 0
      /\ mem["z"].h = mem["x"].h
      /\ call.n >= EncodedLen(SizeOf(mem["x"])))
     => /\ mem'["z"].nan = 0
        /\ ToInt(mem'["z"]) = ToInt(mem["x"])
        /\ mem'["z"] = mem["x"]]_vars

\* A negative x of two words, encoded over the bytes its size takes and
\* decoded from them.
C16_Witness ==
  /\ call.op = "decbe_signed"
  /\ mem["x"].nan = 0
  /\ WordLen(mem["x"].h) = 2
  /\ ToInt(mem["x"]) < -1
  /\ call.n = EncodedLen(SizeOf(mem["x"]))
  /\ SubSeq(buf, 1, call.n) = TwosBytes(ToInt(mem["x"]), call.n, 1)
  /\ mem["z"] = mem["x"]

\* C17: a checked decoder leaves the destination non-NaN with the integer
\* of the source (two's complement when signed, non-negative when unsigned)
\* exactly when that integer is in the range of the destination, and NaN
\* otherwise; a truncating decoder leaves it non-NaN with the integer reduced
\* modulo 2^w; from an empty source the unsigned decoders give 0 and the
\* signed ones NaN.
C17_Decode ==
  call.op \in DOMAIN DecOps =>
    LET f == DecOps[call.op]
        e == SrcInt(SubSeq(buf, 1, call.n), f[1], f[2])
        z == mem[call.d]
    IN IF call.n = 0
       THEN IF f[2] = 1 THEN z.nan = 1 ELSE z = FromInt(SizeOf(z), 0)
       ELSE IF f[3] = 1 THEN IsTruncated(z, e) ELSE IsChecked(z, e)

\* A negative integer in range decoded by a checked signed decoder from a
\* source longer than the destination, whose bits end inside the second
\* word of the destination.
C17_Witness ==
  /\ call.op = "decle_signed"
  /\ call.n * ByteBits > 2 * LimbBits
  /\ WordLen(mem["z"].h) = 2
  /\ mem["z"].nan = 0
  /\ ToInt(mem["z"]) < -1
  /\ ToInt(mem["z"]) = SrcInt(SubSeq(buf, 1, call.n), 0, 1)

\* C18: encbe and encle write the first len bytes of the buffer and nothing
\* else: zeros when x is NaN, and otherwise the len low bytes of the two's
\* complement of x (sign-extended when len is larger than the width takes,
\* truncated when smaller).
C18_Encode ==
  [][call'.op \in DOMAIN EncOps =>
       /\ mem' = mem
       /\ Len(buf') = Len(buf)
       /\ \A i \in 1..Len(buf) : i > call'.n => buf'[i] = buf[i]
       /\ SubSeq(buf', 1, call'.n) =
            IF mem[call'.a].nan = 1
            THEN [i \in 1..call'.n |-> 0]
            ELSE TwosBytes(ToInt(mem[call'.a]), call'.n, EncOps[call'.op])]_vars

\* A negative x of two words encoded over more bytes than its size takes.
C18_Witness ==
  /\ call.op = "encbe"
  /\ mem["x"].nan = 0
  /\ WordLen(mem["x"].h) = 2
  /\ ToInt(mem["x"]) < -1
  /\ call.n > EncodedLen(SizeOf(mem["x"]))
  /\ call.n < Len(buf)
  /\ SubSeq(buf, 1, call.n) = TwosBytes(ToInt(mem["x"]), call.n, 1)
  /\ buf[1] = ByteMask
  /\ buf[Len(buf)] = ByteMask

(***************************************************************************)
(* Integers of C.                                                          *)
(***************************************************************************)
\* The C types: their number of bits and whether they are signed.
CTypes ==
  [u32 |-> [bits |-> WordBits, signed |-> FALSE],
   s32 |-> [bits |-> WordBits, signed |-> TRUE],
   u64 |-> [bits |-> DWordBits, signed |-> FALSE],
   s64 |-> [bits |-> DWordBits, signed |-> TRUE]]
Setters == [set_u32 |-> "u32", set_s32 |-> "s32", set_u64 |-> "u64", set_s64 |-> "s64"]
Getters == [to_u32 |-> "u32", to_s32 |-> "s32", to_u64 |-> "u64", to_s64 |-> "s64"]

\* The integer that the bits r of a C type stand for, and the bits of an
\* integer of the type.
CValue(t, r) == IF t.signed /\ 2 * r >= 2 ^ t.bits THEN r - 2 ^ t.bits ELSE r
CBits(t, e) == e % (2 ^ t.bits)
CFits(t, e) ==
  IF t.signed THEN -(2 ^ (t.bits - 1)) <= e /\ e < 2 ^ (t.bits - 1)
  ELSE 0 <= e /\ e < 2 ^ t.bits

\* C19: a checked setter leaves x non-NaN holding v exactly when v is in the
\* range of the size of x, and NaN otherwise; a checked getter returns the
\* value of x when x is non-NaN and the value is one of the result type, and
\* 0 otherwise; a getter called after the setter of its type returns v when v
\* is in the range of the size of x.
C19_Scalars ==
  [][/\ call'.op \in DOMAIN Setters =>
          IsChecked(mem'["x"], CValue(CTypes[Setters[call'.op]], call'.n))
     /\ call'.op \in DOMAIN Getters =>
          LET t == CTypes[Getters[call'.op]]
          IN ret' = IF mem["x"].nan = 0 /\ CFits(t, ToInt(mem["x"]))
                    THEN CBits(t, ToInt(mem["x"]))
                    ELSE 0
     /\ (/\ call.op \in DOMAIN Setters
         /\ call'.op \in DOMAIN Getters
         /\ Setters[call.op] = Getters[call'.op]
         /\ InRange(CValue(CTypes[Setters[call.op]], call.n), SizeOf(mem["x"])))
        => ret' = call.n]_vars

\* A negative 64-bit value read back from an x of less than 64 bits, which
\* three words hold.
C19_Witness ==
  /\ call.op = "to_s64"
  /\ mem["x"].nan = 0
  /\ SizeOf(mem["x"]) < DWordBits
  /\ WordLen(mem["x"].h) = 3
  /\ ToInt(mem["x"]) < -1
  /\ ret = CBits(CTypes["s64"], ToInt(mem["x"]))

(***************************************************************************)
(* Conversion between sizes.                                               *)
(***************************************************************************)
\* The bits of the top word of d at and above its sign bit are equal.
TopExtended(d) ==
  LET len == WordLen(d.h)
  IN BitAnd(signext(d.v[len], top_index(d.h) + 1), LimbMask) = d.v[len]

\* What set and set_trunc leave in d, of the size it had, from a.
IsSet(op, d, a) ==
  IF op = "set"
  THEN IF a.nan = 0 /\ InRange(ToInt(a), SizeOf(d))
       THEN d.nan = 0 /\ ToInt(d) = ToInt(a)
       ELSE d.nan = 1
  ELSE IF a.nan = 0 THEN IsTruncated(d, ToInt(a)) ELSE d.nan = 1

\* C20, as stated: for d and a of any sizes, set leaves in d the value of a
\* when a is non-NaN and in the range of d and a NaN otherwise, set_trunc
\* leaves the value of a reduced modulo 2^(size of d), a NaN only when a is
\* one; d keeps its size and its top word is sign-extended.
C20_Set ==
  [][call'.op \in {"set", "set_trunc"} =>
       /\ mem'[call'.d].h = mem[call'.d].h
       /\ IsSet(call'.op, mem'[call'.d], mem[call'.a])
       /\ TopExtended(mem'[call'.d])]_vars

\* C20, amended: the same, the top word being sign-extended when d is left
\* non-NaN.
C20_SetValue ==
  [][call'.op \in {"set", "set_trunc"} =>
       /\ mem'[call'.d].h = mem[call'.d].h
       /\ IsSet(call'.op, mem'[call'.d], mem[call'.a])
       /\ mem'[call'.d].nan = 0 => TopExtended(mem'[call'.d])]_vars

\* A negative value of three words set into a d of two words that holds it.
C20_Witness ==
  /\ call.op = "set"
  /\ WordLen(mem[call.a].h) = 3
  /\ WordLen(mem[call.d].h) = 2
  /\ mem[call.a].nan = 0
  /\ ToInt(mem[call.a]) < -LimbMod
  /\ mem[call.d].nan = 0
  /\ ToInt(mem[call.d]) = ToInt(mem[call.a])

(***************************************************************************)
(* Calls in place.                                                         *)
(***************************************************************************)
\* The memory and the fault that the call c leaves from the memory m.
Apply(m, c, env) ==
  CASE c.op = "add" -> NoFault(cttk_i31_add(m, c.d, c.a, c.b))
    [] c.op = "sub" -> NoFault(cttk_i31_sub(m, c.d, c.a, c.b))
    [] c.op = "neg" -> NoFault(cttk_i31_neg(m, c.d, c.a))
    [] c.op = "mul" -> NoFault(cttk_i31_mul(m, c.d, c.a, c.b, env))
    [] c.op = "mul_trunc" -> NoFault(cttk_i31_mul_trunc(m, c.d, c.a, c.b, env))
    [] c.op = "lsh" -> NoFault(cttk_i31_lsh(m, c.d, c.a, c.n))
    [] c.op = "lsh_prot" -> NoFault(cttk_i31_lsh_prot(m, c.d, c.a, c.n))
    [] c.op = "lsh_trunc" -> NoFault(cttk_i31_lsh_trunc(m, c.d, c.a, c.n))
    [] c.op = "lsh_trunc_prot" -> NoFault(cttk_i31_lsh_trunc_prot(m, c.d, c.a, c.n))
    [] c.op = "rsh" -> cttk_i31_rsh(m, c.d, c.a, c.n)
    [] c.op = "rsh_prot" -> cttk_i31_rsh_prot(m, c.d, c.a, c.n)
    [] c.op = "and" -> NoFault(cttk_i31_and(m, c.d, c.a, c.b))
    [] c.op = "or" -> NoFault(cttk_i31_or(m, c.d, c.a, c.b))
    [] c.op = "xor" -> NoFault(cttk_i31_xor(m, c.d, c.a, c.b))
    [] c.op = "eqv" -> NoFault(cttk_i31_eqv(m, c.d, c.a, c.b))
    [] c.op = "not" -> NoFault(cttk_i31_not(m, c.d, c.a))
    [] c.op = "divrem" -> [m |-> cttk_i31_divrem(m, c.d, c.e, c.a, c.b, env),
                           fault |-> divrem_overrun(m, c.d, c.e, c.a, c.b, env)]
    [] c.op = "mod" -> [m |-> cttk_i31_mod(m, c.d, c.a, c.b, env),
                        fault |-> mod_overrun(m, c.d, c.a, c.b, env)]

InPlaceOps ==
  {"add", "sub", "neg", "mul", "mul_trunc", "lsh", "lsh_prot", "lsh_trunc",
   "lsh_trunc_prot", "rsh", "rsh_prot", "and", "or", "xor", "eqv", "not", "divrem", "mod"}

\* The call c has a destination that is a source, or twice the same source
\* (the unary operations name their source twice).
IsInPlace(c) ==
  \/ Dests(c) \cap {c.a, c.b} # {}
  \/ c.a = c.b /\ c.op \in {"add", "sub", "mul", "mul_trunc", "and", "or", "xor", "eqv"}

\* The call c with other destinations: z for the first, w for the second.
Apart(c) ==
  [c EXCEPT !.d = IF c.d = NULL THEN NULL ELSE "z",
            !.e = IF c.e = NULL THEN NULL ELSE "w"]

\* The arrays p and q have the same NaN flag, and the same value when not NaN.
SameResult(p, q) == p.nan = q.nan /\ (p.nan = 0 => p.v = q.v)

\* C21: a call with a destination that is one of its sources leaves in it
\* the value and the NaN flag that the same call leaves in a destination of
\* the same size that is no source.
C21_InPlace ==
  [][(call'.op \in InPlaceOps /\ IsInPlace(call')) =>
       \A m0 \in {[mem EXCEPT !["z"] = InitArr(SizeOf(mem[call'.a])),
                              !["w"] = InitArr(SizeOf(mem[call'.a]))]} :
         \A ref \in {Apply(m0, Apart(call'), plan.env)} :
           /\ fault' = ref.fault
           /\ ~fault' =>
                /\ call'.d # NULL => SameResult(mem'[call'.d], ref.m["z"])
                /\ call'.e # NULL => SameResult(mem'[call'.e], ref.m["w"])]_vars

C21_Witness ==
  /\ call.op = "mul" /\ call.d = call.a /\ call.a # call.b
  /\ WordLen(mem[call.d].h) = 2
  /\ mem[call.d].nan = 0 /\ mem[call.b].nan = 0
  /\ ToInt(mem[call.b]) = 3 /\ ToInt(mem[call.d]) = 6

\* C22 as stated: a multiplication or division that takes a stack branch
\* stays inside its stack temporaries, for every size and every budget of
\* at least 64 bytes, with a remainder recipient or without.
C22_StackFits ==
  call.op \in {"mul", "mul_trunc", "divrem", "mod"} => ~fault

\* The words, header included, of the operands of the last call, and whether
\* they are beyond what its stack branch takes.
CallWords == WordLen(mem[call.a].h) + 1
BeyondBudget ==
  CASE call.op \in {"mul", "mul_trunc"} ->
         call.d \in {call.a, call.b} /\ CallWords * SizeofWord > plan.env.buf
    [] call.op = "mod" -> CallWords > plan.env.buf \div (2 * SizeofWord)
    [] call.op = "divrem" ->
         IF call.e = NULL THEN CallWords > plan.env.buf \div (3 * SizeofWord)
         ELSE CallWords > plan.env.buf \div (2 * SizeofWord)
    [] OTHER -> FALSE

\* The blocks of p obtained and released in the first n calls of the heap.
Obtained(p, n) == Cardinality({k \in 1..n : heap[k] = Malloc(p, TRUE)})
Released(p, n) == Cardinality({k \in 1..n : heap[k] = Free(p)})
Temporaries == {"t", "tr", "t1", "t2"}

\* C23: beyond the stack budget, when the heap is disabled or an allocation
\* fails, mul and mul_trunc into a source leave d NaN and divrem and mod leave
\* every recipient NaN; and every block obtained is released exactly once,
\* whether the call succeeds or not.
C23_ScratchFailure ==
  /\ (/\ call.op \in {"mul", "mul_trunc", "divrem", "mod"}
      /\ BeyondBudget
      /\ \/ plan.env.nomalloc
         \/ \E k \in 1..Len(heap) : heap[k].op = "malloc" /\ ~heap[k].ok)
     => \A p \in Dests(call) : mem[p].nan = 1
  /\ \A p \in Temporaries :
       /\ Released(p, Len(heap)) = Obtained(p, Len(heap))
       /\ \A n \in 1..Len(heap) : Released(p, n) <= Obtained(p, n)
       /\ Obtained(p, Len(heap)) <= 1
  /\ (plan.env.nomalloc \/ ~BeyondBudget) => heap = <<>>

\* A division without remainder recipient whose second allocation failed:
\* the two blocks obtained are released and the quotient is NaN.
C23_Witness ==
  /\ call.op = "divrem" /\ call.e = NULL /\ BeyondBudget
  /\ heap = <<Malloc("tr", TRUE), Malloc("t1", FALSE), Malloc("t2", TRUE),
              Free("tr"), Free("t2")>>
  /\ mem[call.d].nan = 1

\* The last call obtained every block it asked for.
HeapSucceeded(h) == h # <<>> /\ \A k \in 1..Len(h) : h[k].ok

\* C30 as stated: a divrem or mod beyond the stack budget whose allocations
\* all succeed gives the recipients the values and NaN flags of the stack
\* branch, whatever the blocks of malloc hold.
C30_HeapAsStack ==
  [][(call'.op \in {"divrem", "mod"} /\ HeapSucceeded(heap')) =>
       \A ref \in {Apply(mem, call', DefaultEnv)} :
         /\ fault' = ref.fault
         /\ \A p \in Dests(call') : SameResult(mem'[p], ref.m[p])]_vars

\* What holds: the same when the blocks happen to hold the header of the
\* operands, whatever their NaN flag and their value words.
C30_HeapAsStackGivenHeader ==
  [][(/\ call'.op \in {"divrem", "mod"} /\ HeapSucceeded(heap')
      /\ plan.env.junk.h = mem[call'.a].h) =>
       \A ref \in {Apply(mem, call', DefaultEnv)} :
         /\ fault' = ref.fault
         /\ \A p \in Dests(call') : SameResult(mem'[p], ref.m[p])]_vars

\* be, sig and trunc of each decoder.
DecFlags ==
  [decbe_signed |-> <<1, 1, 0>>, decbe_unsigned |-> <<1, 0, 0>>,
   decbe_signed_trunc |-> <<1, 1, 1>>, decbe_unsigned_trunc |-> <<1, 0, 1>>,
   decle_signed |-> <<0, 1, 0>>, decle_unsigned |-> <<0, 0, 0>>,
   decle_signed_trunc |-> <<0, 1, 1>>, decle_unsigned_trunc |-> <<0, 0, 1>>]

\* What the call c shows on the memory m and the byte buffer src.
Trace(m, c, src) ==
  CASE c.op = "lsh" -> lsh_trace(m, c.d, c.a, c.n, TRUE)
    [] c.op = "lsh_trunc" -> lsh_trace(m, c.d, c.a, c.n, FALSE)
    [] c.op = "rsh" -> rsh_trace(m, c.d, c.a, c.n)
    [] c.op = "lsh_prot" -> lsh_prot_trace(m, c.d, c.a, c.n, TRUE)
    [] c.op = "lsh_trunc_prot" -> lsh_prot_trace(m, c.d, c.a, c.n, FALSE)
    [] c.op = "rsh_prot" -> rsh_prot_trace(m, c.d, c.a, c.n)
    [] c.op \in {"add", "sub"} -> add_trace(m, c.d, c.a, c.b, FALSE)
    [] c.op \in {"add_trunc", "sub_trunc"} -> add_trace(m, c.d, c.a, c.b, TRUE)
    [] c.op \in DOMAIN DecFlags ->
         gendec_trace(m, c.d, SubSeq(src, 1, c.n), DecFlags[c.op][1], DecFlags[c.op][2],
                      DecFlags[c.op][3])

\* The memory m and the buffer src with every secret cleared: the same
\* sizes, each array as cttk_i31_init leaves it, each byte zero.
Blank(m) == Stored([p \in DOMAIN m |-> InitArr(SizeOf(m[p]))])
BlankBytes(src) == [i \in 1..Len(src) |-> 0]
ProtOps == {"lsh_prot", "lsh_trunc_prot", "rsh_prot"}

OthersKept(ps) == \A p \in Regs \ ps : mem'[p] = mem[p]

\* C25: on arrays of one size, mux(ctl, d, a, b) leaves in d the array a had
\* when ctl is true and the array b had when ctl is false (header, NaN flag
\* and value words), also when d is a or b; cond_copy(ctl, d, s) leaves in d
\* the array of s when ctl is true and changes no word when ctl is false;
\* cond_swap(ctl, a, b) exchanges the arrays of a and b when ctl is true and
\* changes no word when ctl is false.  No other array changes.
C25_Conditional ==
  [][/\ call'.op = "mux" =>
          /\ mem'[call'.d] = IF call'.n = 1 THEN mem[call'.a] ELSE mem[call'.b]
          /\ OthersKept({call'.d})
     /\ call'.op = "cond_copy" =>
          /\ mem'[call'.d] = IF call'.n = 1 THEN mem[call'.a] ELSE mem[call'.d]
          /\ OthersKept({call'.d})
     /\ call'.op = "cond_swap" =>
          /\ mem'[call'.d] = IF call'.n = 1 THEN mem[call'.e] ELSE mem[call'.d]
          /\ mem'[call'.e] = IF call'.n = 1 THEN mem[call'.d] ELSE mem[call'.e]
          /\ OthersKept({call'.d, call'.e})]_vars

\* mux with a false ctl into its first source x has left in x the NaN array
\* of y, whose value words are not zero.
C25_Witness ==
  /\ call.op = "mux" /\ call.n = 0 /\ call.d = "x" /\ call.a = "x" /\ call.b = "y"
  /\ mem["x"] = mem["y"]
  /\ mem["y"].nan = 1 /\ mem["y"].v[1] # 0

\* The last call was op into w from z and y, x and y being values.
BackFrom(op) ==
  /\ call.op = op /\ call.d = "w" /\ call.a = "z" /\ call.b = "y"
  /\ mem["x"].nan = 0 /\ mem["y"].nan = 0

\* C26: x and y being values of one size, when z holds add(x, y) and is not
\* NaN, sub(z, y) is the value x; when z holds add_trunc(x, y), wrapped or
\* not, sub_trunc(z, y) is the value x.
C26_AddThenSub ==
  /\ (/\ BackFrom("sub")
      /\ mem["z"] = cttk_i31_add(mem, "z", "x", "y")["z"]
      /\ mem["z"].nan = 0) => mem["w"] = mem["x"]
  /\ (/\ BackFrom("sub_trunc")
      /\ mem["z"] = cttk_i31_add_trunc(mem, "z", "x", "y")["z"]) => mem["w"] = mem["x"]

\* sub_trunc has taken y from the add_trunc of x and y, a sum of two value
\* words that wrapped around.
C26_Witness ==
  /\ BackFrom("sub_trunc")
  /\ mem["z"] = cttk_i31_add_trunc(mem, "z", "x", "y")["z"]
  /\ WordLen(mem["x"].h) = 2
  /\ ~InRange(ToInt(mem["x"]) + ToInt(mem["y"]), SizeOf(mem["x"]))
  /\ mem["w"] = mem["x"]

(***************************************************************************)
(* Base64 texts, as RFC 4648 and the documentation of cttk_b64tobin_gen    *)
(* describe them.                                                          *)
(***************************************************************************)
\* 'A'-'Z', 'a'-'z', '0'-'9', '+', '/' and their values.
IsDigit(c) == c \in (65..90) \cup (97..122) \cup (48..57) \cup {43, 47}
DigitValue(c) ==
  IF c \in 65..90 THEN c - 65
  ELSE IF c \in 97..122 THEN c - 71
  ELSE IF c \in 48..57 THEN c + 4
  ELSE IF c = 43 THEN 62 ELSE 63
\* The index (from 0) of the first character at or after from that P holds
\* of; the length of the text when there is none.
FirstAt(src, from, P(_)) ==
  LET S == {i \in from..(Len(src) - 1) : P(src[i + 1])}
  IN IF S = {} THEN Len(src) ELSE CHOOSE i \in S : \A j \in S : i <= j
\* The Base64 characters among the first e characters, and the bytes they
\* decode to.
Digits(src, e) == Cardinality({i \in 1..e : IsDigit(src[i])})
BytesBefore(src, e) == (6 * Digits(src, e)) \div 8
\* The bits the Base64 characters before the index e leave beyond whole
\* bytes.
Leftover(src, e) ==
  LET last == CHOOSE i \in 1..e : IsDigit(src[i]) /\ \A j \in (i + 1)..e : ~IsDigit(src[j])
  IN IF Digits(src, e) % 4 = 2 THEN DigitValue(src[last]) % 16
     ELSE IF Digits(src, e) % 4 = 3 THEN DigitValue(src[last]) % 4
     ELSE 0

\* The first offending character of a text where padding is expected, as a
\* set: empty when the text is well-formed.  Whitespace is skipped when
\* allowed; the Base64 characters come in groups of 4, a last group of 2
\* with two '=' signs or of 3 with one, no bits left over, and only
\* whitespace after the padding.  A text that stops inside a group or inside
\* its padding offends one past its end.
Offence(src, nows) ==
  LET Room(c) == c <= 32 /\ ~nows
      Solid(c) == ~Room(c)
      Alien(c) == ~IsDigit(c) /\ ~Room(c)
      end == Len(src)
      x == FirstAt(src, 0, Alien)
      n == Digits(src, x) % 4
      y == FirstAt(src, x + 1, Solid)
      z == FirstAt(src, y + 1, Solid)
  IN IF x = end THEN (IF n = 0 THEN {} ELSE {end})
     ELSE IF src[x + 1] # 61 THEN {x}
     ELSE IF n < 2 \/ Leftover(src, x) # 0 THEN {x}
     ELSE IF n = 3 THEN (IF y = end THEN {} ELSE {y})
     ELSE IF y = end THEN {end}
     ELSE IF src[y + 1] # 61 THEN {y}
     ELSE IF z = end THEN {} ELSE {z}

\* The destination, when given, has room for a byte per Base64 character.
Roomy == b64.nodst \/ Len(b64.dst) >= Digits(b64.src, Len(b64.src))

SignBit(x) == (SizeOf(x) - 1) % LimbBits
LaidOut(x) ==
  /\ DOMAIN x.v = 1..((SizeOf(x) + LimbBits - 1) \div LimbBits)
  /\ \A i \in DOMAIN x.v : x.v[i] \in 0..(LimbMod - 1)
  /\ x.nan = 0 =>
       x.v[Len(x.v)] \div (2 ^ SignBit(x)) \in {0, 2 ^ (LimbBits - SignBit(x)) - 1}

\* C28: after any sequence of calls on arrays that cttk_i31_init set up, and
\* unless a call faulted, every array has ceil(size / 31) value words whose
\* top bits are zero and, when it is not NaN, a top word that repeats the sign
\* bit through all its higher bits.
C28_LaidOut == ~fault => \A p \in Regs : LaidOut(mem[p])

\* Two calls were made, the second one lsh_trunc by one bit: it left a
\* negative value of two words in its destination, while another array is NaN
\* with a top word that does not repeat its sign bit.
C28_Witness ==
  /\ plan.left = 0 /\ ~fault
  /\ call.op = "lsh_trunc" /\ call.n = 1
  /\ mem[call.d].nan = 0 /\ Len(mem[call.d].v) = 2 /\ mem[call.d].v[2] = LimbMask
  /\ \E p \in Regs :
       /\ mem[p].nan = 1
       /\ mem[p].v[Len(mem[p].v)] \div (2 ^ SignBit(mem[p]))
            \notin {0, 2 ^ (LimbBits - SignBit(mem[p])) - 1}

\* C29: no call changes the size held in the header of an array: after every
\* call that ran without a fault each array has the size it had before the
\* call, hence the one cttk_i31_init gave it.
C29_WidthKept == [][~fault' => \A p \in Regs : mem'[p].h = mem[p].h]_vars

\* A division in place, mod(x, x, y), on operands above the stack budget, with
\* an allocation that failed: x is NaN and has the size it had.
C29_Witness ==
  /\ call.op = "mod" /\ call.d = call.a /\ ~fault
  /\ ~plan.env.nomalloc /\ \E i \in 1..3 : ~plan.env.ok[i]
  /\ Len(heap) > 0
  /\ mem[call.d].nan = 1
  /\ SizeOf(mem[call.d]) = ScratchSize(WidthLimbs)

====
